---- MODULE Spec2Model ----
(***************************************************************************)
(* A model of the qwik-ecosystem-ci orchestration engine (utils.ts and     *)
(* ecosystem-ci.ts): the bisection controller, the repository              *)
(* synchronizer, the suite runner and the override engine.                 *)
(*                                                                         *)
(* Strings are modelled as sequences of tokens, so that the string         *)
(* operations of the code (startsWith, includes, ===, substring, regular   *)
(* expression tests, path.resolve) are computed on their content: the text *)
(* "release: v1" is <<"release", ":", " v1">>, the path "./local-dir" is   *)
(* <<".", "/", "local-dir">>.  The command runner $ returns the captured   *)
(* standard output of the command as it is, final line feed included.      *)
(***************************************************************************)
EXTENDS Integers, Sequences, FiniteSets, TLC

(***************************************************************************)
(* Bounds of the model.                                                    *)
(***************************************************************************)
\* the longest commit range good..head the bisection is run on
MaxCommits == 4
\* how many commits of the range may have a release/docs subject
MaxNonCode == 1

VARIABLES
    cwd,            \* utils.ts: let cwd (the directory $ runs commands in)
    pcBisect,       \* position of bisectQwik
    bisecting,      \* bisectQwik: let bisecting
    commitMsg,      \* bisectQwik: const commitMsg (last value)
    error,          \* bisectQwik: const error (last value returned by runSuite)
    qwikHistory,    \* the commit range good..head of the core checkout
    qwikHead,       \* HEAD of the core checkout
    bisectSession,  \* git's bisect state in the core checkout
    probeLog,       \* the commits runSuite was invoked on, in order
    cmdLog,         \* the git commands issued, in order, with their commit
    resetRuns,      \* how many times `git bisect reset` was executed
    raised,         \* bisectQwik ended by raising
    pcRepo,         \* position of setupRepo
    options,        \* setupRepo: options, after the defaults and normalisation
    needClone,      \* setupRepo: let needClone
    fsDir,          \* what is on disk at options.dir
    remoteMain,     \* the commit the remote's branch main points to
    repoObs,        \* what the running setupRepo call found and did
    prevSync,       \* the last call of setupRepo that succeeded
    pcOv,           \* position of applyPackageOverrides
    ovArgs,         \* applyPackageOverrides: the overrides it was called with
    ovEnv,          \* what detect, lstat and `<pm> --version` answer
    overrides,      \* applyPackageOverrides: overrides, after sanitization
    pkg,            \* the parsed manifest (the object the caller passed)
    pkgFile,        \* package.json on disk
    pm,             \* applyPackageOverrides: const pm
    ovObs,          \* the manifest before the merge, the installs run
    remotePkg,      \* package.json as committed in the remote repository
    pcRun,          \* position of runInRepo
    runOptions,     \* runInRepo: options, after the defaults
    phases,         \* the steps the running runInRepo has started, in order
    runError,       \* why runInRepo threw
    pcTask,         \* position of the function toCommand returned
    taskQueue,      \* toCommand: the tasks the loop has not reached yet
    taskEnv,        \* toCommand: agent, and the scripts it is called with
    taskLog,        \* what the loop executed, in order
    pcCli,          \* position of the command's action in ecosystem-ci.ts
    cliArgs,        \* the command, the suites and the options given
    suitesToRun,    \* const suitesToRun
    suiteIdx,       \* the position of the for loop in suitesToRun
    isFirstRun,     \* bisect: let isFirstRun
    probes,         \* how many times runSuite was invoked
    cliLog,         \* what the command did, in order
    exitCode,       \* the code process.exit was called with
    utilsEnv,       \* utils.ts: let env
    processEnv,     \* process.env
    execEnv         \* the environment of the last command $ executed

bisectVars == <<pcBisect, bisecting, commitMsg, error, qwikHistory,
                qwikHead, bisectSession, probeLog, cmdLog, resetRuns, raised>>

repoVars == <<pcRepo, options, needClone, fsDir, remoteMain, repoObs, prevSync,
              remotePkg>>

ovVars == <<pcOv, ovArgs, ovEnv, overrides, pkg, pkgFile, pm, ovObs>>

runVars == <<pcRun, runOptions, phases, runError>>

taskVars == <<pcTask, taskQueue, taskEnv, taskLog>>

cliVars == <<pcCli, cliArgs, suitesToRun, suiteIdx, isFirstRun, probes, cliLog,
             exitCode, utilsEnv, processEnv, execEnv>>

vars == <<cwd, bisectVars, repoVars, ovVars, runVars, taskVars, cliVars>>

\* what the steps of one function leave alone
otherThanBisect == <<repoVars, ovVars, runVars, taskVars, cliVars>>
otherThanRepo == <<bisectVars, pcOv, ovArgs, ovEnv, overrides, pkg, pm, ovObs,
                   remotePkg, runVars, taskVars, cliVars>>
otherThanOv == <<bisectVars, pcRepo, options, needClone, remoteMain, repoObs,
                 prevSync, remotePkg, runVars, taskVars,
                 cliVars>>
otherThanRun == <<bisectVars, remoteMain, remotePkg, ovEnv, taskVars, cliVars>>
otherThanTask == <<cwd, bisectVars, repoVars, ovVars, runVars, cliVars>>
otherThanCli == <<repoVars, ovVars, runVars, taskVars>>

(***************************************************************************)
(* Strings and paths.                                                      *)
(***************************************************************************)
LF == "\n"

Range(s) == {s[i] : i \in 1..Len(s)}

\* String.prototype.includes for a one-character needle that is a token
Includes(s, tok) == tok \in Range(s)

\* String.prototype.startsWith for a prefix that is a token
StartsWith(s, tok) == Len(s) >= 1 /\ s[1] = tok

\* what execSync returns for a command that printed the line `line`
Stdout(line) == Append(line, LF)

\* the directories of the tool
RootDir == <<"/", "ci">>
WorkspaceDir == RootDir \o <<"/", "workspace">>
\* setupEnvironment: qwikPath = path.resolve(workspace, 'qwik')
qwikPath == WorkspaceDir \o <<"/", "qwik">>
\* a suite's working directory, where a probe leaves cwd
SuiteDir == WorkspaceDir \o <<"/", "qwik-image", "/", "qwik-image">>

\* the segments of a path: its tokens without the separators
Segments(p) == SelectSeq(p, LAMBDA t : t # "/")

IsAbsolute(p) == StartsWith(p, "/")

RECURSIVE Normalize(_, _)
\* path normalisation on segments: "." is dropped, ".." removes the last one
Normalize(segs, acc) ==
    IF segs = <<>> THEN acc
    ELSE IF Head(segs) = "." THEN Normalize(Tail(segs), acc)
    ELSE IF Head(segs) = ".."
        THEN Normalize(Tail(segs),
                       IF acc = <<>> THEN acc ELSE SubSeq(acc, 1, Len(acc) - 1))
    ELSE Normalize(Tail(segs), Append(acc, Head(segs)))

RECURSIVE Join(_)
\* an absolute path from its segments
Join(segs) ==
    IF segs = <<>> THEN <<>>
    ELSE <<"/", Head(segs)>> \o Join(Tail(segs))

\* path.resolve(from, to), from absolute
Resolve(from, to) ==
    LET segs == IF IsAbsolute(to) THEN Segments(to)
                ELSE Segments(from) \o Segments(to)
        n == Normalize(segs, <<>>)
    IN  IF n = <<>> THEN <<"/">> ELSE Join(n)

\* cd(dir): cwd = path.resolve(cwd, dir)
cd(from, dir) == Resolve(from, dir)

(***************************************************************************)
(* The core checkout and git's bisection of it.                            *)
(*                                                                         *)
(* The range is linear: commit 0 is the `good` ref, commits 1..n follow    *)
(* it, n is the head bisectQwik starts on.  The probe fails on a commit    *)
(* exactly when the commit is at or after `culprit`.                        *)
(***************************************************************************)
SubjectFix == <<"fix", ":", " typo">>
SubjectRelease == <<"release", ":", " v1">>
SubjectDocs == <<"docs", ":", " api">>
SubjectDocsScoped == <<"docs", "(", "api): intro">>
Subjects == {SubjectFix, SubjectRelease, SubjectDocs, SubjectDocsScoped}

\* the pattern without its second alternative: /^(?:release)[:(]/
isNonCodeCommitReleaseOnly(msg) ==
    /\ Len(msg) >= 2
    /\ msg[1] = "release"
    /\ msg[2] \in {":", "("}

\* commitMsg.match(/^(?:release|docs)[:(]/)
isNonCodeCommit(msg) ==
    /\ Len(msg) >= 2
    /\ msg[1] \in {"release", "docs"}
    /\ msg[2] \in {":", "("}

Histories ==
    {h \in [n : 1..MaxCommits, culprit : 1..MaxCommits,
            subject : [1..MaxCommits -> Subjects]] :
        /\ h.culprit <= h.n
        /\ \A c \in (h.n + 1)..MaxCommits : h.subject[c] = SubjectFix
        /\ Cardinality({c \in 1..h.n : h.subject[c] # SubjectFix}) <= MaxNonCode}

NoSession == [active |-> FALSE, bad |-> -1, good |-> {}, skip |-> {}, found |-> -1]

Max(S) == CHOOSE x \in S : \A y \in S : y <= x
Min2(a, b) == IF a <= b THEN a ELSE b

\* the first line git prints when it has checked out the next commit to test
OutBisecting == <<"Bisecting:", " revisions left to test after this">>
\* the first line git prints when the search is over
OutFirstBad == <<"sha", " is the first bad commit">>

\* What git does once a bad and a good commit are known (bisect_next_all):
\* the outcomes as records [ok, out, head, session].  The commit to test is
\* one that halves the range best; with skipped commits in the range it is
\* any commit of the range that is not skipped.
GitBisectNext(head, s) ==
    IF s.bad = -1 \/ s.good = {} THEN
        {[ok |-> TRUE, out |-> <<"status: waiting">>, head |-> head, session |-> s]}
    ELSE
        LET lo == Max(s.good)
            hi == s.bad
            inner == {c \in (lo + 1)..(hi - 1) : c \notin s.skip}
            skipped == {c \in (lo + 1)..hi : c \in s.skip}
            dist(c) == Min2(c - lo, hi - c)
            best == {c \in inner : \A d \in inner : dist(d) <= dist(c)}
        IN  IF inner = {} THEN
                IF skipped # {} THEN
                    \* "There are only 'skip'ped commits left to test": exit 2
                    {[ok |-> FALSE, out |-> <<>>, head |-> head, session |-> s]}
                ELSE
                    {[ok |-> TRUE, out |-> OutFirstBad, head |-> head,
                      session |-> [s EXCEPT !.found = hi]]}
            ELSE
                {[ok |-> TRUE, out |-> OutBisecting, head |-> c, session |-> s] :
                    c \in IF skipped = {} THEN best ELSE inner}

\* git bisect start
GitBisectStart(head, s) ==
    {[ok |-> TRUE, out |-> <<"status: waiting">>, head |-> head,
      session |-> [NoSession EXCEPT !.active = TRUE]]}

\* git bisect bad (the commit is HEAD)
GitBisectBad(head, s) ==
    IF ~s.active \/ (\E g \in s.good : head <= g) THEN
        {[ok |-> FALSE, out |-> <<>>, head |-> head, session |-> s]}
    ELSE GitBisectNext(head, [s EXCEPT !.bad = head])

\* git bisect good <rev>
GitBisectGood(head, s, rev) ==
    IF ~s.active \/ (s.bad # -1 /\ rev >= s.bad) THEN
        {[ok |-> FALSE, out |-> <<>>, head |-> head, session |-> s]}
    ELSE GitBisectNext(head, [s EXCEPT !.good = @ \cup {rev}])

\* git bisect skip (the commit is HEAD)
GitBisectSkip(head, s) ==
    IF ~s.active THEN
        {[ok |-> FALSE, out |-> <<>>, head |-> head, session |-> s]}
    ELSE GitBisectNext(head, [s EXCEPT !.skip = @ \cup {head}])

\* String.prototype.toLowerCase on the tokens git prints
ToLowerCase(tok) == IF tok = "Bisecting:" THEN "bisecting:" ELSE tok

\* bisectOut.substring(0, 10).toLowerCase() === 'bisecting:'
StillBisecting(out) == Len(out) >= 1 /\ ToLowerCase(out[1]) = "bisecting:"

\* what runSuite returns on a commit: an Error, or nothing
ProbeResult(h, c) == IF c >= h.culprit THEN "Error" ELSE "void"

(***************************************************************************)
(* bisectQwik(good, runSuite), one action per awaited step.  Every command *)
(* may fail (execSync throws on a non-zero exit); a throw inside the try   *)
(* block is caught and logged, and control goes to the finally block.      *)
(***************************************************************************)
\* an entry of cmdLog: what was run, the commit HEAD was on, and the step
Cmd(name, commit) == [cmd |-> name, commit |-> commit, step |-> pcBisect]

\* the cleanup placed after the loop instead of in a finally block: a throw
\* leaves the function without it
CaughtNoFinally ==
    /\ pcBisect' = "done"
    /\ UNCHANGED <<bisecting, commitMsg, error, qwikHistory, qwikHead,
                   bisectSession, probeLog, resetRuns, raised>>

\* catch (e) { console.log('error while bisecting', e) }
Caught ==
    /\ pcBisect' = "finally"
    /\ UNCHANGED <<bisecting, commitMsg, error, qwikHistory, qwikHead,
                   bisectSession, probeLog, resetRuns, raised>>

\* the reset executed where the probe left the current directory
resetChangesInPlace(next) ==
    /\ UNCHANGED cwd
    /\ cmdLog' = Append(cmdLog, Cmd("reset --hard", qwikHead))
    /\ \/ /\ pcBisect' = next
          /\ UNCHANGED <<bisecting, commitMsg, error, qwikHistory, qwikHead,
                         bisectSession, probeLog, resetRuns, raised>>
       \/ Caught

\* resetChanges: git reset --hard HEAD
resetChanges(next) ==
    /\ cwd' = cd(cwd, qwikPath)
    /\ cmdLog' = Append(cmdLog, Cmd("reset --hard", qwikHead))
    /\ \/ /\ pcBisect' = next
          /\ UNCHANGED <<bisecting, commitMsg, error, qwikHistory, qwikHead,
                         bisectSession, probeLog, resetRuns, raised>>
       \/ Caught

\* cd(qwikPath); await resetChanges()
BisectEnter ==
    /\ pcBisect = "enter"
    /\ UNCHANGED otherThanBisect
    /\ resetChanges("start")

\* await $`git bisect start`
BisectStart ==
    /\ pcBisect = "start"
    /\ UNCHANGED otherThanBisect
    /\ cmdLog' = Append(cmdLog, Cmd("bisect start", qwikHead))
    /\ UNCHANGED cwd
    /\ \/ \E r \in GitBisectStart(qwikHead, bisectSession) :
            /\ r.ok
            /\ bisectSession' = r.session
            /\ pcBisect' = "bad"
            /\ UNCHANGED <<bisecting, commitMsg, error, qwikHistory, qwikHead,
                           probeLog, resetRuns, raised>>
       \/ Caught

\* await $`git bisect bad`
BisectBad ==
    /\ pcBisect = "bad"
    /\ UNCHANGED otherThanBisect
    /\ cmdLog' = Append(cmdLog, Cmd("bisect bad", qwikHead))
    /\ UNCHANGED cwd
    /\ \/ \E r \in GitBisectBad(qwikHead, bisectSession) :
            /\ r.ok
            /\ bisectSession' = r.session
            /\ qwikHead' = r.head
            /\ pcBisect' = "good"
            /\ UNCHANGED <<bisecting, commitMsg, error, qwikHistory, probeLog,
                           resetRuns, raised>>
       \/ Caught

\* await $`git bisect good ${good}`; let bisecting = true; while (bisecting)
BisectGood ==
    /\ pcBisect = "good"
    /\ UNCHANGED otherThanBisect
    /\ cmdLog' = Append(cmdLog, Cmd("bisect good", 0))
    /\ UNCHANGED cwd
    /\ \/ \E r \in GitBisectGood(qwikHead, bisectSession, 0) :
            /\ r.ok
            /\ bisectSession' = r.session
            /\ qwikHead' = r.head
            /\ bisecting' = TRUE
            /\ pcBisect' = "log"
            /\ UNCHANGED <<commitMsg, error, qwikHistory, probeLog, resetRuns,
                           raised>>
       \/ Caught

\* const commitMsg = await $`git log -1 --format=%s`
\* if (isNonCodeCommit) { skip; continue }
BisectLog ==
    /\ pcBisect = "log"
    /\ UNCHANGED otherThanBisect
    /\ cmdLog' = Append(cmdLog, Cmd("log", qwikHead))
    /\ UNCHANGED cwd
    /\ \/ /\ commitMsg' = Stdout(qwikHistory.subject[qwikHead])
          /\ pcBisect' = IF isNonCodeCommit(commitMsg') THEN "skip" ELSE "probe"
          /\ UNCHANGED <<bisecting, error, qwikHistory, qwikHead, bisectSession,
                         probeLog, resetRuns, raised>>
       \/ Caught

\* await $`git bisect skip`; continue
BisectSkip ==
    /\ pcBisect = "skip"
    /\ UNCHANGED otherThanBisect
    /\ cmdLog' = Append(cmdLog, Cmd("bisect skip", qwikHead))
    /\ UNCHANGED cwd
    /\ \/ \E r \in GitBisectSkip(qwikHead, bisectSession) :
            /\ r.ok
            /\ bisectSession' = r.session
            /\ qwikHead' = r.head
            /\ pcBisect' = "log"
            /\ UNCHANGED <<bisecting, commitMsg, error, qwikHistory, probeLog,
                           resetRuns, raised>>
       \/ Caught

\* const error = await runSuite(): the probe returns, or throws; it leaves
\* cwd in a suite's directory
BisectProbe ==
    /\ pcBisect = "probe"
    /\ UNCHANGED otherThanBisect
    /\ probeLog' = Append(probeLog, qwikHead)
    /\ cmdLog' = Append(cmdLog, Cmd("runSuite", qwikHead))
    /\ cwd' = SuiteDir
    /\ UNCHANGED <<bisecting, commitMsg, qwikHistory, qwikHead,
                   bisectSession, resetRuns, raised>>
    /\ \/ /\ error' = ProbeResult(qwikHistory, qwikHead)
          /\ pcBisect' = "reset"
       \/ /\ pcBisect' = "finally"
          /\ UNCHANGED error

\* the verdict reported without the reset of the working tree
BisectResetSkipped ==
    /\ pcBisect = "reset"
    /\ pcBisect' = "verdict"
    /\ UNCHANGED <<cwd, bisecting, commitMsg, error, qwikHistory, qwikHead,
                   bisectSession, probeLog, cmdLog, resetRuns, raised>>
    /\ UNCHANGED otherThanBisect

\* cd(qwikPath); await resetChanges()
BisectReset ==
    /\ pcBisect = "reset"
    /\ UNCHANGED otherThanBisect
    /\ resetChanges("verdict")

\* const bisectOut = await $`git bisect ${error ? 'bad' : 'good'}`
\* bisecting = bisectOut.substring(0, 10).toLowerCase() === 'bisecting:'
BisectVerdict ==
    /\ pcBisect = "verdict"
    /\ UNCHANGED otherThanBisect
    /\ cmdLog' = Append(cmdLog,
                        Cmd(IF error = "Error" THEN "bisect bad" ELSE "bisect good",
                            qwikHead))
    /\ UNCHANGED cwd
    /\ \/ \E r \in IF error = "Error"
                   THEN GitBisectBad(qwikHead, bisectSession)
                   ELSE GitBisectGood(qwikHead, bisectSession, qwikHead) :
            /\ r.ok
            /\ bisectSession' = r.session
            /\ qwikHead' = r.head
            /\ bisecting' = StillBisecting(Stdout(r.out))
            /\ pcBisect' = IF bisecting' THEN "log" ELSE "finally"
            /\ UNCHANGED <<commitMsg, error, qwikHistory, probeLog, resetRuns,
                           raised>>
       \/ Caught

\* finally { try { cd(qwikPath); await $`git bisect reset` } catch (e) { log } }
BisectFinally ==
    /\ pcBisect = "finally"
    /\ UNCHANGED otherThanBisect
    /\ cwd' = cd(cwd, qwikPath)
    /\ cmdLog' = Append(cmdLog, Cmd("bisect reset", qwikHead))
    /\ resetRuns' = resetRuns + 1
    /\ pcBisect' = "done"
    /\ UNCHANGED <<bisecting, commitMsg, error, qwikHistory, probeLog, raised>>
    /\ \/ /\ bisectSession' = NoSession
          /\ qwikHead' = qwikHistory.n
       \/ UNCHANGED <<bisectSession, qwikHead>>

(***************************************************************************)
(* The remote repositories and the git working copy at options.dir.        *)
(*                                                                         *)
(* Every remote holds the same history: commits 1 <- 2 <- 3 on main (its   *)
(* tip is remoteMain, 2 or 3), commit 10 on top of 1 for the branch dev    *)
(* and the tag v1.  Commit 99 stands for a merge commit made locally.      *)
(***************************************************************************)
None == <<>>

\* JavaScript truthiness of a string or undefined option
Truthy(s) == s # None

\* a || b on strings
Or(a, b) == IF Truthy(a) THEN a ELSE b

Main == <<"main">>
Dev == <<"dev">>
TagV1 == <<"v1">>
Sha2 == <<"sha2">>
BranchNames == {Main, Dev}
TagNames == {TagV1}
ShaNames == {Sha2}

RepoA == <<"o", "/", "a">>
UrlA == <<"https", ":", "//github.com/", "o", "/", "a", ".git">>
UrlB == <<"git@github.com", ":", "o", "/", "b", ".git">>
\* the remote of the checkout of the tool itself, which contains the workspace
UrlCI == <<"https", ":", "//github.com/", "QwikDev", "/", "qwik-ecosystem-ci", ".git">>
RemoteUrls == {UrlA, UrlB}
Dir1 == WorkspaceDir \o <<"/", "a">>

MergeCommit == 99
AllCommits == {1, 2, 3, 10}

Parents(c) ==
    CASE c = 2 -> {1}
      [] c = 3 -> {2}
      [] c = 10 -> {1}
      [] c = MergeCommit -> AllCommits
      [] OTHER -> {}

RECURSIVE Ancestors(_)
\* a commit and everything reachable from it
Ancestors(c) ==
    IF c = MergeCommit THEN AllCommits \cup {MergeCommit}
    ELSE {c} \cup UNION {Ancestors(p) : p \in Parents(c)}

RemoteBranch(b, main) ==
    IF b = Main THEN main ELSE IF b = Dev THEN 10 ELSE 0

RemoteTag(t) == IF t = TagV1 THEN 10 ELSE 0

ShaCommit(n) == IF n = Sha2 THEN 2 ELSE 0

NoRefs(names) == [n \in names |-> 0]

Absent ==
    [kind |-> "absent", origin |-> None, shallow |-> FALSE, single |-> None,
     branches |-> NoRefs(BranchNames), remotes |-> NoRefs(BranchNames),
     tags |-> NoRefs(TagNames), head |-> 0, headRef |-> None, fetchHead |-> 0,
     objects |-> {}, untracked |-> FALSE]

\* a directory with files in it that is no git working copy
Plain == [Absent EXCEPT !.kind = "plain"]

Failed(st) == [ok |-> FALSE, st |-> st]
Done(st) == [ok |-> TRUE, st |-> st]

\* git ls-remote --get-url, run in the directory: the outcomes [ok, out].
\* Outside a working copy git fails, unless a directory above is one (the
\* workspace lies in the checkout of the tool) and then answers for that one.
GitLsRemoteGetUrl(st) ==
    IF st.kind = "git" THEN {[ok |-> TRUE, out |-> Stdout(st.origin)]}
    ELSE {[ok |-> FALSE, out |-> None], [ok |-> TRUE, out |-> Stdout(UrlCI)]}

\* git clone [--depth=1 --no-tags] --branch <ref> <url> <dir>
GitClone(st, shallow, ref, url, main) ==
    LET isBranch == ref \in BranchNames
        c == IF isBranch THEN RemoteBranch(ref, main) ELSE RemoteTag(ref)
    IN  IF st.kind # "absent" \/ url \notin RemoteUrls \/ c = 0 THEN Failed(st)
        ELSE Done(
            [kind |-> "git", origin |-> url, shallow |-> shallow,
             single |-> IF shallow THEN ref ELSE None,
             branches |-> [b \in BranchNames |->
                             IF isBranch /\ b = ref THEN c ELSE 0],
             remotes |-> [b \in BranchNames |->
                            IF shallow
                            THEN (IF isBranch /\ b = ref THEN c ELSE 0)
                            ELSE RemoteBranch(b, main)],
             tags |-> [t \in TagNames |-> IF shallow THEN 0 ELSE RemoteTag(t)],
             head |-> c,
             headRef |-> IF isBranch THEN ref ELSE None,
             fetchHead |-> 0,
             objects |-> IF shallow THEN {c} ELSE AllCommits,
             untracked |-> FALSE])

\* git clean -fdxq
GitClean(st) ==
    IF st.kind # "git" THEN Failed(st)
    ELSE Done([st EXCEPT !.untracked = FALSE])

\* git fetch (--depth=1 --no-tags | --tags) origin (tag <name> | <name>)
GitFetch(st, shallow, isTag, name, main) ==
    LET c == IF isTag THEN RemoteTag(name)
             ELSE IF name \in ShaNames THEN ShaCommit(name)
             ELSE RemoteBranch(name, main)
        tracked == /\ ~isTag
                   /\ name \in BranchNames
                   /\ (st.single = None \/ st.single = name)
        got == IF shallow \/ st.shallow THEN {c} ELSE Ancestors(c)
    IN  IF st.kind # "git" \/ st.origin \notin RemoteUrls \/ c = 0 THEN Failed(st)
        ELSE Done(
            [st EXCEPT
                !.fetchHead = c,
                !.objects = @ \cup got
                              \cup (IF shallow THEN {}
                                    ELSE {RemoteTag(t) : t \in TagNames}),
                !.remotes = [b \in BranchNames |->
                               IF tracked /\ b = name THEN c ELSE @[b]],
                !.tags = [t \in TagNames |->
                            IF (isTag /\ t = name) \/ ~shallow
                            THEN RemoteTag(t) ELSE @[t]]])

\* git checkout tags/<name>
GitCheckoutTag(st, name) ==
    IF st.kind # "git" \/ name \notin TagNames THEN Failed(st)
    ELSE IF st.tags[name] = 0 THEN Failed(st)
    ELSE Done([st EXCEPT !.head = st.tags[name], !.headRef = None])

\* git checkout <name>: a local branch, else a new branch for the
\* remote-tracking branch of that name, else a commit (detached)
GitCheckout(st, name) ==
    IF st.kind # "git" THEN Failed(st)
    ELSE IF name \in BranchNames /\ st.branches[name] # 0 THEN
        Done([st EXCEPT !.head = st.branches[name], !.headRef = name])
    ELSE IF name \in BranchNames /\ st.remotes[name] # 0 THEN
        Done([st EXCEPT !.head = st.remotes[name], !.headRef = name,
                        !.branches[name] = st.remotes[name]])
    ELSE IF name \in ShaNames /\ ShaCommit(name) \in st.objects THEN
        Done([st EXCEPT !.head = ShaCommit(name), !.headRef = None])
    ELSE Failed(st)

\* HEAD moved to commit c, with the branch it is on
MoveHead(st, c) ==
    [st EXCEPT !.head = c,
               !.branches = [b \in BranchNames |->
                               IF b = st.headRef THEN c ELSE @[b]]]

\* git merge FETCH_HEAD
GitMerge(st) ==
    IF st.kind # "git" \/ st.fetchHead = 0 \/ st.head = 0 THEN Failed(st)
    ELSE IF st.fetchHead \in Ancestors(st.head) THEN Done(st)
    ELSE IF st.head \in Ancestors(st.fetchHead) THEN
        Done(MoveHead(st, st.fetchHead))
    ELSE IF st.shallow THEN Failed(st)
    ELSE Done(MoveHead([st EXCEPT !.objects = @ \cup {MergeCommit}],
                       MergeCommit))

\* git reset --hard <name>: a tag, else a commit
GitResetHard(st, name) ==
    LET c == IF name \in TagNames THEN st.tags[name]
             ELSE IF name \in ShaNames /\ ShaCommit(name) \in st.objects
                  THEN ShaCommit(name)
             ELSE 0
    IN  IF st.kind # "git" \/ c = 0 THEN Failed(st)
        ELSE Done(MoveHead(st, c))

(***************************************************************************)
(* setupRepo(options), one action per awaited command.                     *)
(***************************************************************************)
ShallowOptions == {"undefined", "true", "false"}

NoOptions ==
    [repo |-> RepoA, commit |-> None, branch |-> None, tag |-> None,
     dir |-> None, shallow |-> "undefined"]

\* the options a caller may pass (a missing dir only with the other defaults)
RepoOptions ==
    {o \in [repo : {RepoA, UrlB}, commit : {None, Sha2}, branch : {None, Dev},
            tag : {None, TagV1}, dir : {None, Dir1}, shallow : ShallowOptions] :
        o.dir = None => o = NoOptions}

\* if (!repo.includes(':')) repo = `https://github.com/${repo}.git`
NormalizeRepo(repo) ==
    IF ~Includes(repo, ":")
    THEN <<"https", ":", "//github.com/">> \o repo \o <<".git">>
    ELSE repo

\* options with the defaults of lines 92-97 and the repo of lines 103-105
EffectiveOptions(o) ==
    [repo |-> NormalizeRepo(o.repo),
     commit |-> o.commit,
     branch |-> IF o.branch = None THEN Main ELSE o.branch,
     tag |-> o.tag,
     dir |-> o.dir,
     shallow |-> IF o.shallow = "undefined" THEN TRUE ELSE o.shallow = "true"]

\* any existing working copy counts as the wanted one
RepoEqualsClonedAnyRepo(repo, currentClonedRepo) == currentClonedRepo.defined

\* the comparison with the output of the command trimmed
RepoEqualsClonedTrimmed(repo, currentClonedRepo) ==
    /\ currentClonedRepo.defined
    /\ repo = SelectSeq(currentClonedRepo.value, LAMBDA t : t # LF)

\* repo === currentClonedRepo, where currentClonedRepo is undefined or the
\* output of `git ls-remote --get-url`
RepoEqualsCloned(repo, currentClonedRepo) ==
    currentClonedRepo.defined /\ repo = currentClonedRepo.value

\* the commit named first wins: commit || tag
SyncTargetCommitFirst(tag, commit, branch) ==
    IF Truthy(commit) THEN [isTag |-> FALSE, name |-> commit]
    ELSE IF Truthy(tag) THEN [isTag |-> TRUE, name |-> tag]
    ELSE [isTag |-> FALSE, name |-> branch]

\* tag ? `tag ${tag}` : `${commit || branch}`  (fetch)
\* tag ? `tags/${tag}` : `${commit || branch}` (checkout)
SyncTarget(tag, commit, branch) ==
    IF Truthy(tag) THEN [isTag |-> TRUE, name |-> tag]
    ELSE [isTag |-> FALSE, name |-> Or(commit, branch)]

\* what is recorded of the running call: the directory it found (its kind
\* and remote), whether it removed the directory, whether it cloned, and
\* whether the call before it synchronized the directory with the same options
NoCall ==
    [preKind |-> "absent", preOrigin |-> None, preShallow |-> FALSE,
     deleted |-> FALSE, cloned |-> FALSE, same |-> FALSE, prevHead |-> 0]

NoSync == [valid |-> FALSE, options |-> EffectiveOptions(NoOptions),
           head |-> 0, main |-> 0]

\* what awaiting a git command gives: what git did, or a failure of the
\* command for another reason (network, disk, permissions)
Await(result) == {result, Failed(fsDir)}

\* the command's result r is taken and setupRepo goes on at `next`, or throws;
\* a command that `restores` writes the tracked files as they are committed
RepoGoes(r, next, restores) ==
    /\ fsDir' = r.st
    /\ pkgFile' = IF r.ok /\ restores THEN remotePkg ELSE pkgFile
    /\ pcRepo' = IF r.ok THEN next ELSE "failed"
    /\ prevSync' = IF ~r.ok THEN NoSync
                   ELSE IF next = "done"
                        THEN [valid |-> TRUE, options |-> options,
                              head |-> r.st.head, main |-> remoteMain]
                   ELSE prevSync

\* fs.existsSync(dir)
existsSync(st) == st.kind # "absent"

\* lines 91-107: defaults, the check of dir, the normalised repo
setupRepo(o) ==
    /\ options' = EffectiveOptions(o)
    /\ needClone' = TRUE
    /\ pcRepo' = IF ~Truthy(o.dir) THEN "failed" ELSE "exists"
    /\ repoObs' = [preKind |-> fsDir.kind, preOrigin |-> fsDir.origin,
                   preShallow |-> fsDir.shallow,
                   deleted |-> FALSE, cloned |-> FALSE,
                   same |-> /\ prevSync.valid
                            /\ prevSync.options = EffectiveOptions(o)
                            /\ prevSync.main = remoteMain,
                   prevHead |-> prevSync.head]
    /\ UNCHANGED <<cwd, fsDir, prevSync, pkgFile>>

\* setupRepo is called
SetupRepoCall(o) ==
    /\ pcRepo \in {"idle", "done", "failed"}
    /\ setupRepo(o)
    /\ UNCHANGED remoteMain
    /\ UNCHANGED otherThanRepo

\* lines 108-124: is the directory there, and is it a clone of repo
SetupRepoExists ==
    /\ pcRepo = "exists"
    /\ UNCHANGED <<options, remoteMain, prevSync, pkgFile>>
    /\ UNCHANGED otherThanRepo
    /\ IF ~existsSync(fsDir) THEN
            /\ pcRepo' = "clone"
            /\ UNCHANGED <<cwd, needClone, fsDir, repoObs>>
       ELSE
            /\ cwd' = cd(cd(cwd, options.dir), cwd)
            /\ \E r \in GitLsRemoteGetUrl(fsDir) :
                LET currentClonedRepo == [defined |-> r.ok, value |-> r.out]
                IN  IF RepoEqualsCloned(options.repo, currentClonedRepo) THEN
                        /\ needClone' = FALSE
                        /\ pcRepo' = "clean"
                        /\ UNCHANGED <<fsDir, repoObs>>
                    ELSE
                        \* fs.rmSync(dir, { recursive: true, force: true }),
                        \* which removes the directory or throws
                        /\ needClone' = TRUE
                        /\ \/ /\ fsDir' = Absent
                              /\ repoObs' = [repoObs EXCEPT !.deleted = TRUE]
                              /\ pcRepo' = "clone"
                           \/ /\ pcRepo' = "failed"
                              /\ UNCHANGED <<fsDir, repoObs>>

\* lines 126-130: git clone
SetupRepoClone ==
    /\ pcRepo = "clone"
    /\ needClone
    /\ \E r \in Await(GitClone(fsDir, options.shallow,
                               Or(options.tag, options.branch),
                               options.repo, remoteMain)) :
        /\ RepoGoes(r, "clean", TRUE)
        /\ repoObs' = [repoObs EXCEPT !.cloned = r.ok]
    /\ UNCHANGED <<cwd, options, needClone, remoteMain>>
    /\ UNCHANGED otherThanRepo

\* lines 131-132: cd(dir); git clean -fdxq
SetupRepoClean ==
    /\ pcRepo = "clean"
    /\ cwd' = cd(cwd, options.dir)
    /\ \E r \in Await(GitClean(fsDir)) : RepoGoes(r, "fetch", FALSE)
    /\ UNCHANGED <<options, needClone, remoteMain, repoObs>>
    /\ UNCHANGED otherThanRepo

\* lines 133-135: git fetch
SetupRepoFetch ==
    /\ pcRepo = "fetch"
    /\ LET t == SyncTarget(options.tag, options.commit, options.branch)
       IN  \E r \in Await(GitFetch(fsDir, options.shallow, t.isTag, t.name,
                                   remoteMain)) :
                RepoGoes(r, "checkout", FALSE)
    /\ UNCHANGED <<cwd, options, needClone, remoteMain, repoObs>>
    /\ UNCHANGED otherThanRepo

\* lines 136-141: git checkout of the target (shallow), of the branch (full)
SetupRepoCheckout ==
    /\ pcRepo = "checkout"
    /\ LET t == SyncTarget(options.tag, options.commit, options.branch)
       IN  IF options.shallow THEN
                \E r \in Await(IF t.isTag THEN GitCheckoutTag(fsDir, t.name)
                               ELSE GitCheckout(fsDir, t.name)) :
                    RepoGoes(r, "done", FALSE)
           ELSE
                \E r \in Await(GitCheckout(fsDir, options.branch)) :
                    RepoGoes(r, "merge", FALSE)
    /\ UNCHANGED <<cwd, options, needClone, remoteMain, repoObs>>
    /\ UNCHANGED otherThanRepo

\* line 142: git merge FETCH_HEAD
SetupRepoMerge ==
    /\ pcRepo = "merge"
    /\ \E r \in Await(GitMerge(fsDir)) :
        RepoGoes(r, IF Truthy(options.tag) \/ Truthy(options.commit)
                    THEN "reset" ELSE "done", FALSE)
    /\ UNCHANGED <<cwd, options, needClone, remoteMain, repoObs>>
    /\ UNCHANGED otherThanRepo

\* lines 143-145: git reset --hard ${tag || commit}
SetupRepoReset ==
    /\ pcRepo = "reset"
    /\ \E r \in Await(GitResetHard(fsDir, Or(options.tag, options.commit))) :
        RepoGoes(r, "done", TRUE)
    /\ UNCHANGED <<cwd, options, needClone, remoteMain, repoObs>>
    /\ UNCHANGED otherThanRepo

\* somebody pushes to the remote's main while no call is running
RemotePush ==
    /\ pcRepo \in {"idle", "done", "failed"}
    /\ remoteMain = 2
    /\ remoteMain' = 3
    /\ UNCHANGED <<cwd, pcRepo, options, needClone, fsDir, repoObs, prevSync,
                   pkgFile>>
    /\ UNCHANGED otherThanRepo

(***************************************************************************)
(* JavaScript values and objects of the manifest and of the override set.  *)
(***************************************************************************)
Undef == [t |-> "undefined", s |-> <<>>]
Str(s) == [t |-> "string", s |-> s]
Bool(b) == [t |-> "boolean", s |-> IF b THEN <<"true">> ELSE <<"false">>]

\* JavaScript truthiness of a value
ValueTruthy(v) ==
    \/ v.t = "string" /\ v.s # <<>>
    \/ v = Bool(TRUE)

Qwik == "@builder.io/qwik"
QwikCity == "@builder.io/qwik-city"
EslintPluginQwik == "eslint-plugin-qwik"
\* the package names that occur as keys
Names == {"pkg-x", "pnpm", "vite", Qwik, QwikCity, EslintPluginQwik}

\* {}
EmptyObject == [n \in Names |-> Undef]

\* an object with the one entry name: value
Entry(name, v) == [EmptyObject EXCEPT ![name] = v]

\* { ...a, ...b }
Spread(a, b) == [n \in Names |-> IF b[n] # Undef THEN b[n] ELSE a[n]]

\* an optional block of the manifest: undefined, or an object
NoBlock == [defined |-> FALSE, e |-> EmptyObject]
Block(obj) == [defined |-> TRUE, e |-> obj]
\* block?.[name]
Get(block, name) == IF block.defined THEN block.e[name] ELSE Undef

Version100 == <<"1.0.0">>
Version200 == <<"2.0.0">>
\* "./local-dir"
LocalDir == <<".", "/", "local-dir">>
\* "@scope/pkg-x"
ScopedName == <<"@", "scope", "/", "pkg-x">>
\* `${options.qwikPath}/packages/qwik` and its companions
QwikPackage == qwikPath \o <<"/", "packages", "/", "qwik">>
QwikCityPackage == qwikPath \o <<"/", "packages", "/", "qwik-city">>
EslintPluginQwikPackage == qwikPath \o <<"/", "packages", "/", "eslint-plugin-qwik">>
QwikPackages == {QwikPackage, QwikCityPackage, EslintPluginQwikPackage}

\* process.cwd(), which the tool never changes
ProcessCwd == RootDir

\* what fs.lstatSync may find at a path
LstatKinds == {"dir", "file", "symlink", "ENOENT", "EACCES"}

\* fs.lstatSync(v): the kind of the entry at v, or the code of the error;
\* the packages of the built core checkout are directories
lstatSync(v, env) ==
    IF v = LocalDir THEN env.kind
    ELSE IF v \in QwikPackages THEN "dir"
    ELSE "ENOENT"

\* isLocalOverride(v): [throws, value]
isLocalOverride(v, env) ==
    IF ~Includes(v, "/") \/ StartsWith(v, "@")
    THEN [throws |-> FALSE, value |-> FALSE]
    ELSE LET k == lstatSync(v, env)
         IN  IF k \in {"dir", "file", "symlink"}
             THEN [throws |-> FALSE, value |-> k = "dir"]
             ELSE [throws |-> k # "ENOENT", value |-> FALSE]

\* useFileProtocol(v) = isLocalOverride(v) ? `file:${path.resolve(v)}` : v
useFileProtocol(v, env) ==
    IF isLocalOverride(v, env).value
    THEN <<"file", ":">> \o Resolve(ProcessCwd, v)
    ELSE v

\* boolean flags are kept as they are
SanitizeKeepAll(given, env) ==
    [n \in Names |->
        IF given[n].t = "string" THEN Str(useFileProtocol(given[n].s, env))
        ELSE given[n]]

\* Object.fromEntries(Object.entries(overrides)
\*     .filter(([key, value]) => typeof value === 'string')
\*     .map(([key, value]) => [key, useFileProtocol(value)]))
Sanitize(given, env) ==
    [n \in Names |->
        IF given[n].t = "string" THEN Str(useFileProtocol(given[n].s, env))
        ELSE Undef]

\* useFileProtocol throws for one of the string values
SanitizeThrows(given, env) ==
    \E n \in Names :
        given[n].t = "string" /\ isLocalOverride(given[n].s, env).throws

(***************************************************************************)
(* The manifest, the package managers.                                     *)
(***************************************************************************)
Pnpm == <<"pnpm">>
Yarn == <<"yarn">>
Npm == <<"npm">>
\* what detect({ cwd: dir }) may answer; None stands for null
Agents == {None, Pnpm, <<"pnpm", "@", "6">>, Yarn, <<"yarn", "@", "berry">>,
           Npm, <<"bun">>}

RECURSIVE SplitFirst(_, _)
\* s.split(sep)[0]
SplitFirst(s, sep) ==
    IF s = <<>> \/ Head(s) = sep THEN <<>>
    ELSE <<Head(s)>> \o SplitFirst(Tail(s), sep)

\* String.prototype.startsWith for a prefix of several tokens
StartsWithSeq(s, prefix) ==
    Len(s) >= Len(prefix) /\ SubSeq(s, 1, Len(prefix)) = prefix

\* String.prototype.trim, the line feed being the only white space there is
Trim(s) == SelectSeq(s, LAMBDA t : t # LF)

\* semver.eq(a, b) for valid versions: the versions are parsed from the
\* trimmed text
SemverEq(a, b) == Trim(a) = Trim(b)

BuggyPnpm == <<"7.18.0">>
FixedPnpm == <<"7.18.1">>
OtherVersion == <<"8.6.0">>
OldVersion == <<"0.9.0">>
PmVersions == {BuggyPnpm, OtherVersion}

NoPkg ==
    [packageManager |-> Undef, engines |-> NoBlock, dependencies |-> NoBlock,
     devDependencies |-> NoBlock, pnpm |-> NoBlock, pnpmOverrides |-> NoBlock,
     resolutions |-> NoBlock, overrides |-> NoBlock]

\* a manifest that uses every block, pinned to the pnpm version with the bug
FullPkg ==
    [packageManager |-> Str(<<"pnpm", "@">> \o BuggyPnpm),
     engines |-> Block(EmptyObject),
     dependencies |-> Block(Entry("pkg-x", Str(OldVersion))),
     devDependencies |-> Block([EmptyObject EXCEPT !["vite"] = Str(OldVersion),
                                                   !["pnpm"] = Str(BuggyPnpm)]),
     pnpm |-> Block(EmptyObject),
     pnpmOverrides |-> Block(Entry("vite", Str(OldVersion))),
     resolutions |-> Block(Entry("vite", Str(OldVersion))),
     overrides |-> Block(Entry("vite", Str(OldVersion)))]

\* a manifest whose dependency on pkg-x is "" (any version), and with a pnpm
\* block that has no overrides
AnyVersionPkg ==
    [NoPkg EXCEPT !.dependencies = Block(Entry("pkg-x", Str(<<>>))),
                  !.devDependencies = Block(Entry("pkg-x", Str(OldVersion))),
                  !.pnpm = Block(EmptyObject)]

Manifests == {NoPkg, FullPkg, AnyVersionPkg}

\* the override sets applyPackageOverrides is called with
OverrideSets ==
    {EmptyObject,
     Entry("pkg-x", Str(Version100)),
     [EmptyObject EXCEPT !["pkg-x"] = Str(Version100), !["vite"] = Bool(TRUE),
                         ![Qwik] = Str(LocalDir)],
     [EmptyObject EXCEPT !["pkg-x"] = Str(ScopedName),
                         !["vite"] = Str(Version200)]}

\* the environment of one run: the manager detect finds, what is at
\* ./local-dir, the version `<pm> --version` prints
Environments == [agent : Agents, kind : LstatKinds, version : PmVersions]

\* overridePackageManagerVersion: the version in use, read from
\* pkg.packageManager or printed by `<pm> --version`
VersionInUse(p, m, env) ==
    IF p.packageManager.t = "string"
       /\ StartsWithSeq(p.packageManager.s, m \o <<"@">>)
    THEN SubSeq(p.packageManager.s, Len(m) + 2, Len(p.packageManager.s))
    ELSE Stdout(env.version)

\* overridePackageManagerVersion reads the version from the manifest
VersionInManifest(p, m) ==
    /\ p.packageManager.t = "string"
    /\ StartsWithSeq(p.packageManager.s, m \o <<"@">>)

\* overridePackageManagerVersion(pkg, pm): the manifest it leaves
overridePackageManagerVersion(p, m, env) ==
    IF m = Pnpm /\ SemverEq(VersionInUse(p, m, env), BuggyPnpm) THEN
        [p EXCEPT
            !.packageManager = Str(m \o <<"@">> \o FixedPnpm),
            !.engines = Block([@.e EXCEPT !["pnpm"] = Str(FixedPnpm)]),
            !.devDependencies =
                IF ValueTruthy(Get(@, "pnpm"))
                THEN Block([@.e EXCEPT !["pnpm"] = Str(FixedPnpm)])
                ELSE @]
    ELSE p

\* if (block?.[name]) block[name] = version, for every entry of overrides
PatchDirect(block, ov) ==
    IF ~block.defined THEN block
    ELSE Block([n \in Names |->
                  IF ov[n] # Undef /\ ValueTruthy(block.e[n])
                  THEN ov[n] ELSE block.e[n]])

\* the chain of lines 495-529 with a branch for one more manager
SupportedManagersAndBun == {Pnpm, Yarn, Npm, <<"bun">>}

SupportedManagers == {Pnpm, Yarn, Npm}

\* lines 495-528: the manifest with the overrides merged in, per manager
MergeOverrides(p, m, ov) ==
    IF m = Pnpm THEN
        [p EXCEPT !.devDependencies = Block(Spread(@.e, ov)),
                  !.pnpm = Block(@.e),
                  !.pnpmOverrides = Block(Spread(@.e, ov))]
    ELSE IF m = Yarn THEN
        [p EXCEPT !.resolutions = Block(Spread(@.e, ov))]
    ELSE IF m = Npm THEN
        [p EXCEPT !.overrides = Block(Spread(@.e, ov)),
                  !.dependencies = PatchDirect(@, ov),
                  !.devDependencies = PatchDirect(@, ov)]
    ELSE p

(***************************************************************************)
(* applyPackageOverrides(dir, pkg, overrides), one action per await.       *)
(***************************************************************************)
NoObs == [before |-> NoPkg, installs |-> <<>>, cleanedIn |-> <<>>]

\* the directory a call of a suite is about
SuiteClone == GitClone(Absent, TRUE, Main, UrlA, 2).st

\* the step of applyPackageOverrides at `at` is the one to run
OvAt(at) == pcOv = at

\* lines 468-481: the call, with the sanitization of the overrides
applyPackageOverrides(p, given) ==
    /\ ovArgs' = given
    /\ pkg' = p
    /\ pm' = None
    /\ ovObs' = NoObs
    /\ IF SanitizeThrows(given, ovEnv)
       THEN pcOv' = "failed" /\ overrides' = given
       ELSE pcOv' = "clean" /\ overrides' = Sanitize(given, ovEnv)

\* the caller has read the manifest from package.json (runInRepo, 272-273)
OvCall(given) ==
    /\ pcOv \in {"idle", "done", "failed"}
    /\ applyPackageOverrides(pkgFile, given)
    /\ UNCHANGED <<cwd, fsDir, ovEnv, pkgFile>>
    /\ UNCHANGED otherThanOv

\* line 482: git clean -fdxq, in the directory cwd names
OvClean ==
    /\ OvAt("clean")
    /\ \E r \in Await(IF cwd = Dir1 THEN GitClean(fsDir) ELSE Done(fsDir)) :
        /\ fsDir' = r.st
        /\ pcOv' = IF r.ok THEN "detect" ELSE "failed"
    /\ ovObs' = [ovObs EXCEPT !.cleanedIn = cwd]
    /\ UNCHANGED <<cwd, ovArgs, ovEnv, overrides, pkg, pkgFile, pm>>
    /\ UNCHANGED otherThanOv

\* lines 484-491: detect, pm = agent?.split('@')[0]
OvDetect ==
    /\ OvAt("detect")
    /\ IF ~Truthy(ovEnv.agent)
       THEN pcOv' = "failed" /\ pm' = pm
       ELSE pcOv' = "pin" /\ pm' = SplitFirst(ovEnv.agent, "@")
    /\ UNCHANGED <<cwd, fsDir, ovArgs, ovEnv, overrides, pkg, pkgFile, ovObs>>
    /\ UNCHANGED otherThanOv

\* line 493: await overridePackageManagerVersion(pkg, pm)
OvPin ==
    /\ OvAt("pin")
    /\ \/ /\ pkg' = overridePackageManagerVersion(pkg, pm, ovEnv)
          /\ pcOv' = "merge"
       \/ \* `<pm> --version` fails
          /\ ~VersionInManifest(pkg, pm)
          /\ pkg' = pkg
          /\ pcOv' = "failed"
    /\ UNCHANGED <<cwd, fsDir, ovArgs, ovEnv, overrides, pkgFile, pm, ovObs>>
    /\ UNCHANGED otherThanOv

\* lines 495-531: the merge per manager, or the error for another manager
OvMerge ==
    /\ OvAt("merge")
    /\ IF pm \in SupportedManagers
       THEN /\ pkg' = MergeOverrides(pkg, pm, overrides)
            /\ ovObs' = [ovObs EXCEPT !.before = pkg]
            /\ pcOv' = "write"
       ELSE /\ pcOv' = "failed"
            /\ UNCHANGED <<pkg, ovObs>>
    /\ UNCHANGED <<cwd, fsDir, ovArgs, ovEnv, overrides, pkgFile, pm>>
    /\ UNCHANGED otherThanOv

\* lines 532-533: package.json is written, or the write fails
OvWrite ==
    /\ OvAt("write")
    /\ \/ pkgFile' = pkg /\ pcOv' = "install"
       \/ pkgFile' = pkgFile /\ pcOv' = "failed"
    /\ UNCHANGED <<cwd, fsDir, ovArgs, ovEnv, overrides, pkg, pm, ovObs>>
    /\ UNCHANGED otherThanOv

\* what an install leaves in the directory
Installed(st) == Done([st EXCEPT !.untracked = TRUE])

\* lines 536-542: the install command of the manager, in the directory cwd names
OvInstall ==
    /\ OvAt("install")
    /\ \E r \in Await(IF cwd = Dir1 THEN Installed(fsDir) ELSE Done(fsDir)) :
        /\ fsDir' = r.st
        /\ pcOv' = IF r.ok THEN "done" ELSE "failed"
        /\ ovObs' = [ovObs EXCEPT !.installs = Append(@, pm)]
    /\ UNCHANGED <<cwd, ovArgs, ovEnv, overrides, pkg, pkgFile, pm>>
    /\ UNCHANGED otherThanOv

(***************************************************************************)
(* runInRepo(options), one action per await.                               *)
(***************************************************************************)
OptionalBooleans == {"undefined", "true", "false"}

\* options.x == null ? dflt : options.x
WithDefault(x, dflt) == IF x = "undefined" THEN dflt ELSE x = "true"

BuildTask == <<"build">>
TestTask == <<"test">>
HookTask == <<"echo hook">>

\* the override sets a caller of runInRepo gives
RunOverrideSets ==
    {EmptyObject,
     Entry(Qwik, Str(Version200)),
     Entry(Qwik, Str(Version100)),
     Entry("vite", Str(Version200))}

\* the options runInRepo is called with, for the suite of repository o/a:
\* every combination of skipGit, verify, test, release and overrides for a
\* suite with a build task and hooks, and the suites without them or with
\* an agent given
RunInputs ==
    [skipGit : OptionalBooleans, verify : OptionalBooleans,
     build : {BuildTask}, test : {None, TestTask}, hooks : {TRUE},
     release : {None, Version100}, overrides : RunOverrideSets,
     agent : {None}, dir : {None}]
    \cup
    [skipGit : {"undefined"}, verify : {"undefined"},
     build : {None, BuildTask}, test : {TestTask}, hooks : BOOLEAN,
     release : {None}, overrides : {EmptyObject},
     agent : {None, Npm, <<"deno">>}, dir : {None, <<"a">>}]

\* the keys of AGENTS
AgentKeys == Agents \ {None}

RECURSIVE AfterLast(_, _)
\* s.substring(s.lastIndexOf(tok) + 1)
AfterLast(s, tok) ==
    IF ~Includes(s, tok) THEN s
    ELSE AfterLast(Tail(s), tok)

\* path.resolve(options.workspace,
\*              options.dir || repo.substring(repo.lastIndexOf('/') + 1))
RunDir(o) == Resolve(WorkspaceDir, Or(o.dir, AfterLast(RepoA, "/")))

\* lines 216-224: the defaults of verify and skipGit
RunDefaults(i) ==
    [i EXCEPT !.verify = WithDefault(i.verify, TRUE),
              !.skipGit = WithDefault(i.skipGit, FALSE)]

\* the verify phase runs whenever verify is set
runsVerifyWithoutTest(o) == o.verify

\* if (verify && test)
runsVerify(o) == o.verify /\ Truthy(o.test)

\* lines 287-292: release and overrides.vite are in conflict
ReleaseConflict(o) ==
    /\ Truthy(o.release)
    /\ ValueTruthy(o.overrides["vite"])
    /\ o.overrides["vite"] # Str(o.release)

\* x ||= dflt
OrAssign(x, dflt) == IF ValueTruthy(x) THEN x ELSE dflt

\* lines 284-301: the overrides passed on to applyPackageOverrides
RunOverrides(o) ==
    IF Truthy(o.release)
    THEN [o.overrides EXCEPT !["vite"] = Str(o.release)]
    ELSE [o.overrides EXCEPT
            ![Qwik] = OrAssign(@, Str(QwikPackage)),
            ![QwikCity] = OrAssign(@, Str(QwikCityPackage)),
            ![EslintPluginQwik] = OrAssign(@, Str(EslintPluginQwikPackage))]

\* runInRepo throws
RunThrows(why) ==
    /\ pcRun' = "failed"
    /\ runError' = why

\* runInRepo is called, once
RunCall(i) ==
    /\ pcRun = "idle"
    /\ runOptions' = RunDefaults(i)
    /\ phases' = <<>>
    /\ runError' = "none"
    /\ pcRun' = "sync"
    /\ UNCHANGED <<cwd, pcRepo, options, needClone, fsDir, repoObs, prevSync>>
    /\ UNCHANGED <<pcOv, ovArgs, overrides, pkg, pkgFile, pm, ovObs>>
    /\ UNCHANGED otherThanRun

\* lines 245-249: setupRepo({ repo, dir, branch, tag, commit }), or cd(dir)
RunSync ==
    /\ pcRun = "sync"
    /\ IF ~runOptions.skipGit THEN
            /\ setupRepo([repo |-> RepoA, commit |-> None, branch |-> Main,
                          tag |-> None, dir |-> RunDir(runOptions),
                          shallow |-> "undefined"])
            /\ phases' = Append(phases, "sync")
            /\ pcRun' = "syncing"
       ELSE
            /\ cwd' = cd(cwd, RunDir(runOptions))
            /\ pcRun' = "detect"
            /\ UNCHANGED <<pcRepo, options, needClone, fsDir, repoObs,
                           prevSync, pkgFile, phases>>
    /\ UNCHANGED <<runOptions, runError>>
    /\ UNCHANGED <<pcOv, ovArgs, overrides, pkg, pm, ovObs>>
    /\ UNCHANGED otherThanRun

\* setupRepo has returned or thrown
RunSynced ==
    /\ pcRun = "syncing"
    /\ pcRepo \in {"done", "failed"}
    /\ IF pcRepo = "done" THEN pcRun' = "detect" /\ runError' = runError
       ELSE RunThrows("sync")
    /\ UNCHANGED <<cwd, pcRepo, options, needClone, fsDir, repoObs, prevSync>>
    /\ UNCHANGED <<pcOv, ovArgs, overrides, pkg, pkgFile, pm, ovObs>>
    /\ UNCHANGED <<runOptions, phases>>
    /\ UNCHANGED otherThanRun

\* lines 250-273: the agent, detected if not given; the manifest is read
RunDetect ==
    /\ pcRun = "detect"
    /\ LET agent == IF runOptions.agent = None
                    THEN (IF existsSync(fsDir) THEN ovEnv.agent ELSE None)
                    ELSE runOptions.agent
       IN  IF agent = None THEN RunThrows("detect") /\ pkg' = pkg
           ELSE IF agent \notin AgentKeys THEN RunThrows("agent") /\ pkg' = pkg
           ELSE IF ~existsSync(fsDir) THEN RunThrows("read") /\ pkg' = pkg
           ELSE /\ pkg' = pkgFile
                /\ pcRun' = "beforeInstall"
                /\ runError' = runError
    /\ UNCHANGED <<cwd, pcRepo, options, needClone, fsDir, repoObs, prevSync>>
    /\ UNCHANGED <<pcOv, ovArgs, overrides, pkgFile, pm, ovObs>>
    /\ UNCHANGED <<runOptions, phases>>
    /\ UNCHANGED otherThanRun

\* the hook of a slot, if the caller gave hooks
Hook(o) == IF o.hooks THEN HookTask ELSE None

\* await command?.(pkg.scripts) for the command toCommand made of `task`:
\* no task, nothing is run; else the task runs in the directory cwd names,
\* and runInRepo goes on at `next` or throws
RunSlot(at, phase, task, next) ==
    /\ pcRun = at
    /\ phases' = Append(phases, phase)
    /\ IF ~Truthy(task) THEN
            /\ pcRun' = next
            /\ UNCHANGED <<fsDir, runError>>
       ELSE
            \E r \in Await(IF cwd = Dir1 THEN Installed(fsDir)
                           ELSE Done(fsDir)) :
                /\ fsDir' = r.st
                /\ IF r.ok THEN pcRun' = next /\ runError' = runError
                   ELSE RunThrows("command")
    /\ UNCHANGED <<cwd, pcRepo, options, needClone, repoObs, prevSync>>
    /\ UNCHANGED <<pcOv, ovArgs, overrides, pkg, pkgFile, pm, ovObs>>
    /\ UNCHANGED runOptions
    /\ UNCHANGED otherThanRun

\* line 275: await beforeInstallCommand?.(pkg.scripts)
RunBeforeInstall ==
    RunSlot("beforeInstall", "beforeInstall", Hook(runOptions),
            IF runsVerify(runOptions) THEN "frozenInstall" ELSE "override")

\* lines 278-279: the frozen install of the agent
RunFrozenInstall ==
    RunSlot("frozenInstall", "frozenInstall", <<"install --frozen">>,
            "verifyBeforeBuild")

\* line 280
RunVerifyBeforeBuild ==
    RunSlot("verifyBeforeBuild", "beforeBuild", Hook(runOptions), "verifyBuild")

\* line 281
RunVerifyBuild ==
    RunSlot("verifyBuild", "build", runOptions.build, "verifyBeforeTest")

\* line 282
RunVerifyBeforeTest ==
    RunSlot("verifyBeforeTest", "beforeTest", Hook(runOptions), "verifyTest")

\* line 283
RunVerifyTest ==
    RunSlot("verifyTest", "test", runOptions.test, "override")

\* lines 285-302: the overrides are made and applyPackageOverrides is called
RunOverride ==
    /\ pcRun = "override"
    /\ IF ReleaseConflict(runOptions) THEN
            /\ RunThrows("conflict")
            /\ UNCHANGED <<phases, pcOv, ovArgs, overrides, pkg, pm, ovObs>>
       ELSE
            /\ applyPackageOverrides(pkg, RunOverrides(runOptions))
            /\ phases' = Append(phases, "override")
            /\ pcRun' = "overriding"
            /\ runError' = runError
    /\ UNCHANGED <<cwd, pcRepo, options, needClone, fsDir, repoObs, prevSync>>
    /\ UNCHANGED <<pkgFile, runOptions>>
    /\ UNCHANGED otherThanRun

\* applyPackageOverrides has returned or thrown
RunOverridden ==
    /\ pcRun = "overriding"
    /\ pcOv \in {"done", "failed"}
    /\ IF pcOv = "done" THEN pcRun' = "beforeBuild" /\ runError' = runError
       ELSE RunThrows("override")
    /\ UNCHANGED <<cwd, pcRepo, options, needClone, fsDir, repoObs, prevSync>>
    /\ UNCHANGED <<pcOv, ovArgs, overrides, pkg, pkgFile, pm, ovObs>>
    /\ UNCHANGED <<runOptions, phases>>
    /\ UNCHANGED otherThanRun

\* line 303
RunBeforeBuild ==
    RunSlot("beforeBuild", "beforeBuild", Hook(runOptions), "build")

\* line 304, and the test of line 305
RunBuild ==
    RunSlot("build", "build", runOptions.build,
            IF Truthy(runOptions.test) THEN "beforeTest" ELSE "done")

\* line 306
RunBeforeTest ==
    RunSlot("beforeTest", "beforeTest", Hook(runOptions), "test")

\* line 307
RunTest ==
    RunSlot("test", "test", runOptions.test, "done")

(***************************************************************************)
(* toCommand and parseCommand.  A task string is a sequence of tokens: a   *)
(* word (a run of \w characters), a blank, "--", or another character.     *)
(***************************************************************************)

Blank == " "
Words == {"build", "test", "foo", "bar", "flag", "release", "prepare"}

\* /\w+/ and /\s/ on one token
IsWord(t) == t \in Words
IsSpace(t) == t \in {Blank, LF}

RECURSIVE TrimStart(_)
TrimStart(s) ==
    IF s # <<>> /\ IsSpace(Head(s)) THEN TrimStart(Tail(s)) ELSE s

RECURSIVE TrimEnd(_)
TrimEnd(s) ==
    IF s # <<>> /\ IsSpace(s[Len(s)])
    THEN TrimEnd(SubSeq(s, 1, Len(s) - 1))
    ELSE s

\* String.prototype.trim
TrimString(s) == TrimEnd(TrimStart(s))

\* parseCommand returned null
NoMatch == [matched |-> FALSE, cmd |-> None, flags |-> None]

\* parseCommand: /^(\w+)(?:\s+(--.+))?$/ on the trimmed command; flags is
\* undefined (None) when the optional group did not take part
parseCommand(command) ==
    LET t == TrimString(command)
        rest == Tail(t)
        flags == TrimStart(rest)
    IN  IF t = <<>> \/ ~IsWord(Head(t)) THEN NoMatch
        ELSE IF rest = <<>>
        THEN [matched |-> TRUE, cmd |-> <<Head(t)>>, flags |-> None]
        ELSE IF /\ IsSpace(Head(rest))
                /\ Len(flags) >= 2
                /\ Head(flags) = "--"
                /\ LF \notin Range(flags)
        THEN [matched |-> TRUE, cmd |-> <<Head(t)>>, flags |-> flags]
        ELSE NoMatch

\* the values a task may have (types.d.ts: a string, a function, or an
\* object naming a script)
StringTask(s) ==
    [type |-> "string", text |-> s, script |-> None, args |-> <<>>]
FunctionTask ==
    [type |-> "function", text |-> None, script |-> None, args |-> <<>>]
ScriptTask(script, args) ==
    [type |-> "object", text |-> None, script |-> script, args |-> args]
UndefinedTask ==
    [type |-> "undefined", text |-> None, script |-> None, args |-> <<>>]

\* pkg.scripts: undefined when the manifest has no "scripts" block
NoScripts == [defined |-> FALSE, names |-> {}]
Scripts(names) == [defined |-> TRUE, names |-> names]

\* what one turn of the loop does with its task
Skipped == [via |-> "continue", agent |-> None, args |-> <<>>, text |-> None]
\* await $`${getCommand(agent, 'run', args)}`
RunForm(agent, args) ==
    [via |-> "run", agent |-> agent, args |-> args, text |-> None]
\* await $`${task}`
RawShell(text) ==
    [via |-> "shell", agent |-> None, args |-> <<>>, text |-> text]
\* await task()
Called == [via |-> "call", agent |-> None, args |-> <<>>, text |-> None]
Thrown(message) ==
    [via |-> "throw", agent |-> None, args |-> <<>>, text |-> <<message>>]

\* [parsedCmd.cmd, parsedCmd.flags].filter(v => !!v)
FilterTruthy(s) == SelectSeq(s, Truthy)

\* lines 156-188: the body of the loop, for one task
toCommand(task, agent, scripts) ==
    LET parsedCmd == IF task.type = "string" THEN parseCommand(task.text)
                     ELSE NoMatch
    IN  IF task.type = "undefined" \/ (task.type = "string" /\ task.text = None)
        THEN Skipped
        ELSE IF task.type = "string" /\ parsedCmd.matched THEN
            IF ~scripts.defined THEN Thrown("TypeError")
            ELSE IF parsedCmd.cmd[1] \in scripts.names
            THEN RunForm(agent, FilterTruthy(<<parsedCmd.cmd, parsedCmd.flags>>))
            ELSE RawShell(task.text)
        ELSE IF task.type = "function" THEN Called
        ELSE IF task.type = "object" /\ Truthy(task.script) THEN
            IF ~scripts.defined THEN Thrown("TypeError")
            ELSE IF task.script[1] \in scripts.names
            THEN RunForm(agent, <<task.script>> \o task.args)
            ELSE Thrown("invalid task, script does not exist in package.json")
        ELSE Thrown("invalid task, expected string or function")

\* line 153: the function toCommand(task, agent) returned is called
TaskCall(tasks, agent, scripts) ==
    /\ pcTask = "idle"
    /\ pcTask' = "loop"
    /\ taskQueue' = tasks
    /\ taskEnv' = [agent |-> agent, scripts |-> scripts]
    /\ taskLog' = <<>>
    /\ UNCHANGED otherThanTask

\* lines 155-189: one turn of the loop; a command or a function that fails
\* rejects the promise, which ends the loop
TaskStep ==
    /\ pcTask = "loop"
    /\ taskQueue # <<>>
    /\ LET task == Head(taskQueue)
           did == toCommand(task, taskEnv.agent, taskEnv.scripts)
       IN  /\ taskLog' = Append(taskLog, [task |-> task, did |-> did])
           /\ taskQueue' = Tail(taskQueue)
           /\ \E ok \in IF did.via \in {"run", "shell", "call"} THEN BOOLEAN
                        ELSE {did.via # "throw"} :
                pcTask' = IF ok THEN "loop" ELSE "threw"
    /\ UNCHANGED taskEnv
    /\ UNCHANGED otherThanTask

\* line 190: the loop is over
TaskReturn ==
    /\ pcTask = "loop"
    /\ taskQueue = <<>>
    /\ pcTask' = "done"
    /\ UNCHANGED <<taskQueue, taskEnv, taskLog>>
    /\ UNCHANGED otherThanTask

\* the function toCommand returns has not been called
TaskIdle ==
    /\ pcTask = "idle"
    /\ taskQueue = <<>>
    /\ taskEnv = [agent |-> None, scripts |-> NoScripts]
    /\ taskLog = <<>>

(***************************************************************************)
(* ecosystem-ci.ts: the commands.  One action per awaited step of a        *)
(* command's action; a promise that rejects outside runSuite's try block   *)
(* ends the process.                                                       *)
(***************************************************************************)

\* suite names; the files of the tests directory are <name>.ts
QwikImage == <<"qwik-image">>
QwikUiHeadless == <<"qwik-ui-headless">>
UnknownSuite == <<"unknown">>
HiddenSuite == <<"_", "hidden">>
TsFile(name) == name \o <<".ts">>

\* fs.readdirSync(path.join(root, 'tests'))
TestsDir == {TsFile(QwikImage), TsFile(QwikUiHeadless)}

EndsWith(s, tok) == Len(s) >= 1 /\ s[Len(s)] = tok

\* Array.prototype.sort on the names: code-unit order
SuiteOrder == <<QwikImage, QwikUiHeadless>>
SortSuites(S) == SelectSeq(SuiteOrder, LAMBDA n : n \in S)

\* lines 153-157
availableSuites ==
    SortSuites({SubSeq(f, 1, Len(f) - 1) :
                    f \in {g \in TestsDir : ~StartsWith(g, "_") /\ EndsWith(g, ".ts")}})

\* lines 161-163
invalidSuites(suites) ==
    SelectSeq(suites,
              LAMBDA x : ~StartsWith(x, "_") /\ x \notin Range(availableSuites))

\* the check of line 162 without its exemption of the names that start
\* with "_"
invalidSuitesNotAvailable(suites) ==
    SelectSeq(suites, LAMBDA x : x \notin Range(availableSuites))

\* the check of lines 161-164 applied to the first name only
getSuitesToRunFirstOnly(suites) ==
    IF suites = <<>> THEN [exits |-> FALSE, suites |-> availableSuites]
    ELSE [exits |-> invalidSuites(<<Head(suites)>>) # <<>>, suites |-> suites]

\* getSuitesToRun(suites, root): whether it exits, and what it returns
getSuitesToRun(suites) ==
    IF suites = <<>> THEN [exits |-> FALSE, suites |-> availableSuites]
    ELSE [exits |-> invalidSuites(suites) # <<>>, suites |-> suites]

\* environments: the variables that matter, unset ones are None
EnvNames == {"PATH", "CI", "YARN_ENABLE_IMMUTABLE_INSTALLS", "NODE_OPTIONS",
             "ECOSYSTEM_CI"}
NoEnv == [n \in EnvNames |-> None]
\* process.env in a developer's shell, and on a GitHub runner (the workflows
\* set NODE_OPTIONS)
ShellEnv == [NoEnv EXCEPT !["PATH"] = <<"/usr/bin">>]
RunnerEnv == [ShellEnv EXCEPT !["CI"] = <<"true">>,
                              !["NODE_OPTIONS"] = <<"--max-old-space-size=6144">>]

\* lines 62-68
ExtendedEnv(inherited) ==
    [inherited EXCEPT !["CI"] = <<"true">>,
                      !["YARN_ENABLE_IMMUTABLE_INSTALLS"] = <<"false">>,
                      !["NODE_OPTIONS"] = <<"--max-old-space-size=6144">>,
                      !["ECOSYSTEM_CI"] = <<"true">>]

\* lines 45-48: execSync(cmd, {cwd, encoding}) has no env option, so the
\* child process inherits process.env
ExecSyncEnv == processEnv

\* an entry of cliLog
Event(ev, suite, skipGit) ==
    [ev |-> ev, suite |-> suite, skipGit |-> skipGit, verify |-> FALSE,
     probe |-> probes]

\* the entry of a step that is given the option verify
WithVerify(event, verify) == [event EXCEPT !.verify = verify]

\* import(`./tests/${suite}.ts`) finds the module
SuiteExists(suite) == TsFile(suite) \in TestsDir

\* cli.parse(): the action of the command is called
CliCommand(a) ==
    /\ pcCli = "idle"
    /\ cliArgs' = a
    /\ pcCli' = IF a.command = "bisect" THEN "good" ELSE "env"
    /\ UNCHANGED <<suitesToRun, suiteIdx, isFirstRun, probes, cliLog, exitCode,
                   utilsEnv, processEnv, execEnv>>
    /\ UNCHANGED <<cwd, bisectVars>>
    /\ UNCHANGED otherThanCli

\* lines 103-108
CliBisectGood ==
    /\ pcCli = "good"
    /\ IF ~Truthy(cliArgs.good)
       THEN /\ cliLog' = Append(cliLog, Event("print", None, FALSE))
            /\ exitCode' = 1
            /\ pcCli' = "exited"
       ELSE /\ pcCli' = "env"
            /\ UNCHANGED <<cliLog, exitCode>>
    /\ UNCHANGED <<cliArgs, suitesToRun, suiteIdx, isFirstRun, probes, utilsEnv,
                   processEnv, execEnv>>
    /\ UNCHANGED <<cwd, bisectVars>>
    /\ UNCHANGED otherThanCli

\* lines 28, 62, 77, 109: setupEnvironment()
CliSetupEnvironment ==
    /\ pcCli = "env"
    /\ cwd' = ProcessCwd
    /\ utilsEnv' = ExtendedEnv(processEnv)
    /\ cliLog' = Append(cliLog, Event("setupEnvironment", None, FALSE))
    /\ pcCli' = IF cliArgs.command = "build-qwik" THEN "sync" ELSE "suites"
    /\ UNCHANGED <<cliArgs, suitesToRun, suiteIdx, isFirstRun, probes, exitCode,
                   processEnv, execEnv>>
    /\ UNCHANGED bisectVars
    /\ UNCHANGED otherThanCli

\* lines 29, 78, 110: getSuitesToRun(suites, root), and the branch on
\* options.release of line 31
CliGetSuitesToRun ==
    /\ pcCli = "suites"
    /\ LET r == getSuitesToRun(cliArgs.suites)
       IN  IF r.exits
           THEN /\ cliLog' = cliLog \o <<Event("print", None, FALSE),
                                         Event("print", None, FALSE)>>
                /\ exitCode' = 1
                /\ pcCli' = "exited"
                /\ UNCHANGED <<suitesToRun, suiteIdx>>
           ELSE /\ suitesToRun' = r.suites
                /\ suiteIdx' = 1
                /\ pcCli' = IF \/ cliArgs.command = "run-suites"
                               \/ cliArgs.command = "run" /\ Truthy(cliArgs.release)
                            THEN "loop" ELSE "sync"
                /\ UNCHANGED <<cliLog, exitCode>>
    /\ UNCHANGED <<cliArgs, isFirstRun, probes, utilsEnv, processEnv, execEnv>>
    /\ UNCHANGED <<cwd, bisectVars>>
    /\ UNCHANGED otherThanCli

\* an awaited step outside a try block rejects: the process ends
CliCrashes ==
    /\ pcCli' = "crashed"
    /\ exitCode' = 1

\* what a step adds to cliLog: its event, and the throw when it rejects
Logged(event, ok) ==
    cliLog \o IF ok THEN <<event>> ELSE <<event, Event("throw", event.suite, FALSE)>>

\* lines 32, 63, 132: await setupQwikRepo(options)
CliSetupQwikRepo ==
    /\ pcCli = "sync"
    /\ cwd' = cd(cwd, qwikPath)
    /\ execEnv' = ExecSyncEnv
    /\ \/ /\ cliLog' = Logged(Event("setupQwikRepo", None, FALSE), TRUE)
          /\ pcCli' = IF cliArgs.command = "bisect" THEN "initial" ELSE "build"
          /\ UNCHANGED exitCode
       \/ /\ cliLog' = Logged(Event("setupQwikRepo", None, FALSE), FALSE)
          /\ CliCrashes
    /\ UNCHANGED <<cliArgs, suitesToRun, suiteIdx, isFirstRun, probes, utilsEnv,
                   processEnv>>
    /\ UNCHANGED bisectVars
    /\ UNCHANGED otherThanCli

\* lines 33, 64: await buildQwik({verify})
CliBuildQwik ==
    /\ pcCli = "build"
    /\ cwd' = cd(cwd, qwikPath)
    /\ execEnv' = ExecSyncEnv
    /\ \/ /\ cliLog' = Logged(WithVerify(Event("buildQwik", None, FALSE),
                                          cliArgs.verify), TRUE)
          /\ pcCli' = IF cliArgs.command = "build-qwik" THEN "done" ELSE "loop"
          /\ UNCHANGED exitCode
       \/ /\ cliLog' = Logged(WithVerify(Event("buildQwik", None, FALSE),
                                          cliArgs.verify), FALSE)
          /\ CliCrashes
    /\ UNCHANGED <<cliArgs, suitesToRun, suiteIdx, isFirstRun, probes, utilsEnv,
                   processEnv>>
    /\ UNCHANGED bisectVars
    /\ UNCHANGED otherThanCli

\* run(suite, options) is called: the turn of a for loop starts
RunStarts(at, running, skipGit, verify) ==
    /\ pcCli = at
    /\ suiteIdx <= Len(suitesToRun)
    /\ cliLog' = Append(cliLog, WithVerify(Event("start", suitesToRun[suiteIdx],
                                                 skipGit), verify))
    /\ pcCli' = running
    /\ UNCHANGED <<cliArgs, suitesToRun, suiteIdx, isFirstRun, probes, exitCode,
                   utilsEnv, processEnv, execEnv>>
    /\ UNCHANGED <<cwd, bisectVars>>
    /\ UNCHANGED otherThanCli

\* tests/qwik-image.ts line 7, tests/qwik-ui-headless.ts line 7: the
\* repository of a suite
SuiteRepo(suite) ==
    IF suite = QwikImage THEN <<"qwikdev", "/", "qwik-image">>
    ELSE <<"qwikifiers", "/", "qwik-ui">>

\* ecosystem-ci.ts line 147 and utils.ts lines 240-243: the directory of a
\* suite, path.resolve(path.resolve(workspace, suite), <name of the repo>)
SuiteTarget(suite) ==
    Resolve(Resolve(WorkspaceDir, suite), AfterLast(SuiteRepo(suite), "/"))

\* utils.ts lines 109-117 and 131: cd(dir) and cd(_cwd) around the look at
\* the existing directory, then cd(dir)
CwdAfterSetupRepo(from, dir) == cd(cd(cd(from, dir), from), dir)

\* run(suite, options) rejects
RunRejects(caught) ==
    /\ cliLog' = Logged(Event("end", suitesToRun[suiteIdx], FALSE), FALSE)
    /\ UNCHANGED suiteIdx
    /\ IF caught THEN pcCli' = "probeCaught" /\ UNCHANGED exitCode
       ELSE CliCrashes

\* lines 143-144 and utils.ts lines 240-249: the module of the suite is
\* imported, which rejects when there is none, before any command is
\* executed; runInRepo calls setupRepo, which ends with cwd in the directory
\* of the suite and cleans it (line 132) or throws before its cd(dir), or it
\* calls cd(dir) when skipGit is set
RunSyncs(running, overriding, caught, mayFail) ==
    /\ pcCli = running
    /\ LET suite == suitesToRun[suiteIdx]
           skipGit == cliLog[Len(cliLog)].skipGit
       IN  \/ /\ ~SuiteExists(suite)
              /\ RunRejects(caught)
              /\ UNCHANGED <<cwd, execEnv>>
           \/ /\ SuiteExists(suite)
              /\ IF skipGit
                 THEN /\ cwd' = cd(cwd, SuiteTarget(suite))
                      /\ UNCHANGED execEnv
                 ELSE /\ cwd' = CwdAfterSetupRepo(cwd, SuiteTarget(suite))
                      /\ execEnv' = ExecSyncEnv
              /\ pcCli' = overriding
              /\ UNCHANGED <<cliLog, suiteIdx, exitCode>>
           \/ /\ SuiteExists(suite)
              /\ ~skipGit
              /\ mayFail
              /\ cwd' = cd(cd(cwd, SuiteTarget(suite)), cwd)
              /\ execEnv' = ExecSyncEnv
              /\ RunRejects(caught)
    /\ UNCHANGED <<cliArgs, suitesToRun, isFirstRun, probes, utilsEnv,
                   processEnv>>
    /\ UNCHANGED bisectVars
    /\ UNCHANGED otherThanCli

\* utils.ts lines 250-309, ecosystem-ci.ts lines 145-149: the rest of
\* runInRepo, with the `git clean -fdxq` of applyPackageOverrides (line 482),
\* runs in cwd and leaves it alone; await run(suite, options) is over
RunEnds(overriding, loop, caught, mayPass, mayFail) ==
    /\ pcCli = overriding
    /\ execEnv' = ExecSyncEnv
    /\ \/ /\ mayPass
          /\ cliLog' = Logged(Event("end", suitesToRun[suiteIdx], FALSE), TRUE)
          /\ suiteIdx' = suiteIdx + 1
          /\ pcCli' = loop
          /\ UNCHANGED exitCode
       \/ /\ mayFail
          /\ RunRejects(caught)
    /\ UNCHANGED <<cliArgs, suitesToRun, isFirstRun, probes, utilsEnv,
                   processEnv>>
    /\ UNCHANGED <<cwd, bisectVars>>
    /\ UNCHANGED otherThanCli

\* lines 44-48, 80, 86-87: skipGit is false, or not given; verify is the
\* option of the command line
CliRunStart == RunStarts("loop", "running", FALSE, cliArgs.verify)

CliRunSync == RunSyncs("running", "overriding", FALSE, TRUE)

CliRunEnd == RunEnds("overriding", "loop", FALSE, TRUE, TRUE)

\* lines 49-50, 88-89: the loop is over, and so is the action
CliLoopEnd ==
    /\ pcCli = "loop"
    /\ suiteIdx > Len(suitesToRun)
    /\ pcCli' = "done"
    /\ UNCHANGED <<cliArgs, suitesToRun, suiteIdx, isFirstRun, probes, cliLog,
                   exitCode, utilsEnv, processEnv, execEnv>>
    /\ UNCHANGED <<cwd, bisectVars>>
    /\ UNCHANGED otherThanCli

\* the commit under test has the regression
HeadIsBad == ProbeResult(qwikHistory, qwikHead) = "Error"

\* runSuite is invoked: line 133 (the starting commit), utils.ts line 391
\* (a candidate of the bisection)
CliRunSuite ==
    /\ \/ /\ pcCli = "initial"
          /\ UNCHANGED <<pcBisect, probeLog, cmdLog>>
       \/ /\ pcCli = "bisecting"
          /\ pcBisect = "probe"
          /\ pcBisect' = "probing"
          /\ probeLog' = Append(probeLog, qwikHead)
          /\ cmdLog' = Append(cmdLog, Cmd("runSuite", qwikHead))
    /\ probes' = probes + 1
    /\ pcCli' = "probeBuild"
    /\ UNCHANGED <<cliArgs, suitesToRun, suiteIdx, isFirstRun, cliLog, exitCode,
                   utilsEnv, processEnv, execEnv>>
    /\ UNCHANGED <<cwd, bisecting, commitMsg, error, qwikHistory, qwikHead,
                   bisectSession, resetRuns, raised>>
    /\ UNCHANGED otherThanCli

\* the build guarded by isFirstRun, as the verification is
CliProbeBuildFirstRunOnly ==
    /\ pcCli = "probeBuild"
    /\ IF isFirstRun
       THEN /\ cliLog' = Append(cliLog, WithVerify(Event("buildQwik", None, FALSE),
                                                   cliArgs.verify))
            /\ cwd' = cd(cwd, qwikPath)
            /\ execEnv' = ExecSyncEnv
       ELSE UNCHANGED <<cliLog, cwd, execEnv>>
    /\ pcCli' = "probeLoop"
    /\ suiteIdx' = 1
    /\ UNCHANGED <<cliArgs, suitesToRun, isFirstRun, probes, exitCode, utilsEnv,
                   processEnv>>
    /\ UNCHANGED bisectVars
    /\ UNCHANGED otherThanCli

\* line 115: await buildQwik(...) inside the try block
CliProbeBuild ==
    /\ pcCli = "probeBuild"
    /\ cwd' = cd(cwd, qwikPath)
    /\ execEnv' = ExecSyncEnv
    /\ \/ /\ cliLog' = Logged(WithVerify(Event("buildQwik", None, FALSE),
                                          isFirstRun /\ cliArgs.verify), TRUE)
          /\ pcCli' = "probeLoop"
          /\ suiteIdx' = 1
       \/ /\ HeadIsBad
          /\ cliLog' = Logged(WithVerify(Event("buildQwik", None, FALSE),
                                          isFirstRun /\ cliArgs.verify), FALSE)
          /\ pcCli' = "probeCaught"
          /\ UNCHANGED suiteIdx
    /\ UNCHANGED <<cliArgs, suitesToRun, isFirstRun, probes, exitCode, utilsEnv,
                   processEnv>>
    /\ UNCHANGED bisectVars
    /\ UNCHANGED otherThanCli

\* lines 116-119: verify: !!(isFirstRun && verify), skipGit: !isFirstRun
CliProbeRunStart ==
    RunStarts("probeLoop", "probeRunning", ~isFirstRun,
              isFirstRun /\ cliArgs.verify)

\* lines 117-125: setupRepo fails on a commit that has the regression
CliProbeRunSync ==
    RunSyncs("probeRunning", "probeOverriding", TRUE, HeadIsBad)

\* lines 117-125: a suite fails on a commit that has the regression (the
\* last one does when nothing failed before it)
CliProbeRunEnd ==
    RunEnds("probeOverriding", "probeLoop", TRUE,
            ~HeadIsBad \/ suiteIdx < Len(suitesToRun), HeadIsBad)

\* isFirstRun cleared when runSuite returns, whatever it returns
CliProbeReturnAlwaysClears ==
    /\ \/ pcCli = "probeCaught"
       \/ pcCli = "probeLoop" /\ suiteIdx > Len(suitesToRun)
    /\ LET e == IF pcCli = "probeCaught" THEN "Error" ELSE "void"
       IN  /\ isFirstRun' = FALSE
           /\ IF pcBisect = "probing"
              THEN /\ error' = e
                   /\ pcBisect' = "reset"
                   /\ pcCli' = "bisecting"
                   /\ UNCHANGED cliLog
              ELSE /\ UNCHANGED error
                   /\ IF e = "Error"
                      THEN /\ pcBisect' = "enter"
                           /\ pcCli' = "bisecting"
                           /\ UNCHANGED cliLog
                      ELSE /\ cliLog' = Append(cliLog, Event("print", None, FALSE))
                           /\ pcCli' = "done"
                           /\ UNCHANGED pcBisect
    /\ UNCHANGED <<cliArgs, suitesToRun, suiteIdx, probes, exitCode, utilsEnv,
                   processEnv, execEnv>>
    /\ UNCHANGED <<cwd, bisecting, commitMsg, qwikHistory, qwikHead,
                   bisectSession, probeLog, cmdLog, resetRuns, raised>>
    /\ UNCHANGED otherThanCli

\* lines 126-130: runSuite returns null, or the error it caught; lines
\* 134-138 and utils.ts line 391: what its caller does with it
CliProbeReturn ==
    /\ \/ pcCli = "probeCaught"
       \/ pcCli = "probeLoop" /\ suiteIdx > Len(suitesToRun)
    /\ LET e == IF pcCli = "probeCaught" THEN "Error" ELSE "void"
       IN  /\ isFirstRun' = IF e = "void" THEN FALSE ELSE isFirstRun
           /\ IF pcBisect = "probing"
              THEN /\ error' = e
                   /\ pcBisect' = "reset"
                   /\ pcCli' = "bisecting"
                   /\ UNCHANGED cliLog
              ELSE /\ UNCHANGED error
                   /\ IF e = "Error"
                      THEN /\ pcBisect' = "enter"
                           /\ pcCli' = "bisecting"
                           /\ UNCHANGED cliLog
                      ELSE /\ cliLog' = Append(cliLog, Event("print", None, FALSE))
                           /\ pcCli' = "done"
                           /\ UNCHANGED pcBisect
    /\ UNCHANGED <<cliArgs, suitesToRun, suiteIdx, probes, exitCode, utilsEnv,
                   processEnv, execEnv>>
    /\ UNCHANGED <<cwd, bisecting, commitMsg, qwikHistory, qwikHead,
                   bisectSession, probeLog, cmdLog, resetRuns, raised>>
    /\ UNCHANGED otherThanCli

\* line 135: await bisectQwik(...) is over, and so is the action
CliBisectDone ==
    /\ pcCli = "bisecting"
    /\ pcBisect = "done"
    /\ pcCli' = "done"
    /\ UNCHANGED <<cliArgs, suitesToRun, suiteIdx, isFirstRun, probes, cliLog,
                   exitCode, utilsEnv, processEnv, execEnv>>
    /\ UNCHANGED <<cwd, bisectVars>>
    /\ UNCHANGED otherThanCli

\* no command has been given
NoCommand ==
    [command |-> "none", suites |-> <<>>, good |-> None, release |-> None,
     verify |-> FALSE]

CliIdle ==
    /\ pcCli = "idle"
    /\ cliArgs = NoCommand
    /\ suitesToRun = <<>>
    /\ suiteIdx = 0
    /\ isFirstRun = TRUE
    /\ probes = 0
    /\ cliLog = <<>>
    /\ exitCode = -1
    /\ utilsEnv = NoEnv
    /\ processEnv = ShellEnv
    /\ execEnv = NoEnv

\* runInRepo has not been called
NoRun ==
    [skipGit |-> FALSE, verify |-> TRUE, build |-> None, test |-> None,
     hooks |-> FALSE, release |-> None, overrides |-> EmptyObject,
     agent |-> None, dir |-> None]

\* setupRepo is not running
RepoIdle ==
    /\ pcRepo = "idle"
    /\ options = EffectiveOptions(NoOptions)
    /\ needClone = TRUE
    /\ fsDir = Absent
    /\ remoteMain = 2
    /\ repoObs = NoCall
    /\ prevSync = NoSync
    /\ remotePkg = NoPkg

\* runInRepo is not running
RunIdle ==
    /\ pcRun = "idle"
    /\ runOptions = NoRun
    /\ phases = <<>>
    /\ runError = "none"

\* applyPackageOverrides is not running
OvIdle ==
    /\ pcOv = "idle"
    /\ ovArgs = EmptyObject
    /\ ovEnv = [agent |-> Pnpm, kind |-> "dir", version |-> OtherVersion]
    /\ overrides = EmptyObject
    /\ pkg = NoPkg
    /\ pkgFile = NoPkg
    /\ pm = None
    /\ ovObs = NoObs

\* bisectQwik is not running
BisectIdle ==
    /\ pcBisect = "idle"
    /\ bisecting = FALSE
    /\ commitMsg = <<>>
    /\ error = "void"
    /\ qwikHistory = [n |-> 1, culprit |-> 1,
                      subject |-> [c \in 1..MaxCommits |-> SubjectFix]]
    /\ qwikHead = 1
    /\ bisectSession = NoSession
    /\ probeLog = <<>>
    /\ cmdLog = <<>>
    /\ resetRuns = 0
    /\ raised = FALSE

BisectInit ==
    /\ RepoIdle
    /\ OvIdle
    /\ RunIdle
    /\ TaskIdle
    /\ CliIdle
    /\ cwd = SuiteDir
    /\ pcBisect = "enter"
    /\ bisecting = FALSE
    /\ commitMsg = <<>>
    /\ error = "void"
    /\ qwikHistory \in Histories
    /\ qwikHead = qwikHistory.n
    /\ bisectSession = NoSession
    /\ probeLog = <<>>
    /\ cmdLog = <<>>
    /\ resetRuns = 0
    /\ raised = FALSE

BisectNext ==
    \/ BisectEnter
    \/ BisectStart
    \/ BisectBad
    \/ BisectGood
    \/ BisectLog
    \/ BisectSkip
    \/ BisectProbe
    \/ BisectReset
    \/ BisectVerdict
    \/ BisectFinally

SpecBisect == BisectInit /\ [][BisectNext]_vars

\* bisectQwik is awaited to its end: no step is postponed for ever
SpecBisectFair == SpecBisect /\ WF_vars(BisectNext)

\* the directory is missing, or holds files that are no working copy
RepoInit ==
    /\ BisectIdle
    /\ OvIdle
    /\ RunIdle
    /\ TaskIdle
    /\ CliIdle
    /\ remotePkg = NoPkg
    /\ cwd = RootDir
    /\ pcRepo = "idle"
    /\ options = EffectiveOptions(NoOptions)
    /\ needClone = TRUE
    /\ fsDir \in {Absent, Plain}
    /\ remoteMain = 2
    /\ repoObs = NoCall
    /\ prevSync = NoSync

RepoNext ==
    \/ \E o \in RepoOptions : SetupRepoCall(o)
    \/ SetupRepoExists
    \/ SetupRepoClone
    \/ SetupRepoClean
    \/ SetupRepoFetch
    \/ SetupRepoCheckout
    \/ SetupRepoMerge
    \/ SetupRepoReset
    \/ RemotePush

SpecRepo == RepoInit /\ [][RepoNext]_vars

\* the suite directory is a clean clone, cwd names it (runInRepo has called
\* setupRepo or cd), package.json is one of the manifests
OvInit ==
    /\ BisectIdle
    /\ RunIdle
    /\ TaskIdle
    /\ CliIdle
    /\ remotePkg = NoPkg
    /\ cwd = Dir1
    /\ pcRepo = "idle"
    /\ options = EffectiveOptions(NoOptions)
    /\ needClone = TRUE
    /\ fsDir = SuiteClone
    /\ remoteMain = 2
    /\ repoObs = NoCall
    /\ prevSync = NoSync
    /\ pcOv = "idle"
    /\ ovArgs = EmptyObject
    /\ ovEnv \in Environments
    /\ overrides = EmptyObject
    /\ pkg = NoPkg
    /\ pkgFile \in Manifests
    /\ pm = None
    /\ ovObs = NoObs

OvNext ==
    \/ \E given \in OverrideSets : OvCall(given)
    \/ OvClean
    \/ OvDetect
    \/ OvPin
    \/ OvMerge
    \/ OvWrite
    \/ OvInstall

SpecOverrides == OvInit /\ [][OvNext]_vars

\* the suite directory is missing, or left by an earlier run
\* package.json as a run before this one left it: lines 495-533, the
\* overrides of that run merged in and written to disk
LeftByRun(committed, agent) ==
    MergeOverrides(committed, agent, Entry(Qwik, Str(Version100)))

RunInit ==
    /\ BisectIdle
    /\ RunIdle
    /\ TaskIdle
    /\ CliIdle
    /\ cwd = RootDir
    /\ pcRepo = "idle"
    /\ options = EffectiveOptions(NoOptions)
    /\ needClone = TRUE
    /\ fsDir \in {Absent, Installed(SuiteClone).st}
    /\ remoteMain = 2
    /\ repoObs = NoCall
    /\ prevSync = NoSync
    /\ remotePkg \in {FullPkg, AnyVersionPkg}
    /\ pcOv = "idle"
    /\ ovArgs = EmptyObject
    /\ ovEnv \in [agent : {None, Pnpm, Npm}, kind : {"dir"},
                  version : {OtherVersion}]
    /\ overrides = EmptyObject
    /\ pkg = NoPkg
    /\ pkgFile \in IF existsSync(fsDir)
                   THEN {remotePkg, LeftByRun(remotePkg, ovEnv.agent)}
                   ELSE {remotePkg}
    /\ pm = None
    /\ ovObs = NoObs

RunNext ==
    \/ \E i \in RunInputs : RunCall(i)
    \/ RunSync
    \/ SetupRepoExists
    \/ SetupRepoClone
    \/ SetupRepoClean
    \/ SetupRepoFetch
    \/ SetupRepoCheckout
    \/ RunSynced
    \/ RunDetect
    \/ RunBeforeInstall
    \/ RunFrozenInstall
    \/ RunVerifyBeforeBuild
    \/ RunVerifyBuild
    \/ RunVerifyBeforeTest
    \/ RunVerifyTest
    \/ RunOverride
    \/ OvClean
    \/ OvDetect
    \/ OvPin
    \/ OvMerge
    \/ OvWrite
    \/ OvInstall
    \/ RunOverridden
    \/ RunBeforeBuild
    \/ RunBuild
    \/ RunBeforeTest
    \/ RunTest

SpecRun == RunInit /\ [][RunNext]_vars

\* the task strings: "build", "build --flag", " build ", "test  --flag foo",
\* "build test foo bar", "test foo", "release.prepare", ""
TaskStrings ==
    {<<"build">>, <<"build", Blank, "--", "flag">>, <<Blank, "build", Blank>>,
     <<"test", Blank, Blank, "--", "flag", Blank, "foo">>,
     <<"build", Blank, "test", Blank, "foo", Blank, "bar">>,
     <<"test", Blank, "foo">>, <<"release", ".", "prepare">>, None}

Tasks ==
    {StringTask(s) : s \in TaskStrings}
        \cup {FunctionTask, UndefinedTask, ScriptTask(<<"build">>, <<<<"--", "flag">>>>),
              ScriptTask(None, <<>>)}

\* Array.isArray(task) ? task : [task]
TaskLists == {<<t>> : t \in Tasks} \cup {<<t, u>> : t \in Tasks, u \in Tasks}

TaskInit ==
    /\ BisectIdle
    /\ RepoIdle
    /\ OvIdle
    /\ RunIdle
    /\ TaskIdle
    /\ CliIdle
    /\ cwd = RootDir

TaskNext ==
    \/ \E tasks \in TaskLists, agent \in {Pnpm, Npm},
          scripts \in {NoScripts, Scripts({}), Scripts({"build"})} :
            TaskCall(tasks, agent, scripts)
    \/ TaskStep
    \/ TaskReturn

SpecTask == TaskInit /\ [][TaskNext]_vars

\* the lists of suites given on the command line
SuiteLists ==
    {<<>>, <<QwikImage>>, <<QwikUiHeadless, QwikImage>>, <<UnknownSuite>>,
     <<QwikImage, UnknownSuite>>, <<HiddenSuite>>}

CliInputs ==
    [command : {"run", "run-suites"}, suites : SuiteLists, good : {None},
     release : {None, Version100}, verify : BOOLEAN]
        \cup [command : {"build-qwik"}, suites : {<<>>}, good : {None},
              release : {None}, verify : BOOLEAN]
        \cup [command : {"bisect"}, suites : SuiteLists, good : {None, TagV1},
              release : {None}, verify : BOOLEAN]

\* the histories of the core checkout: the regression is in the range, or
\* there is none
CliHistories ==
    {h \in [n : {MaxCommits}, culprit : 1..(MaxCommits + 1),
            subject : [1..MaxCommits -> {SubjectFix, SubjectDocs}]] :
        Cardinality({c \in 1..h.n : h.subject[c] # SubjectFix}) <= MaxNonCode}

CliInit ==
    /\ RepoIdle
    /\ OvIdle
    /\ RunIdle
    /\ TaskIdle
    /\ cwd = RootDir
    /\ pcBisect = "idle"
    /\ bisecting = FALSE
    /\ commitMsg = <<>>
    /\ error = "void"
    /\ qwikHistory \in CliHistories
    /\ qwikHead = qwikHistory.n
    /\ bisectSession = NoSession
    /\ probeLog = <<>>
    /\ cmdLog = <<>>
    /\ resetRuns = 0
    /\ raised = FALSE
    /\ pcCli = "idle"
    /\ cliArgs = NoCommand
    /\ suitesToRun = <<>>
    /\ suiteIdx = 0
    /\ isFirstRun = TRUE
    /\ probes = 0
    /\ cliLog = <<>>
    /\ exitCode = -1
    /\ utilsEnv = NoEnv
    /\ processEnv \in {ShellEnv, RunnerEnv}
    /\ execEnv = NoEnv

CliNext ==
    \/ \E a \in CliInputs : CliCommand(a)
    \/ CliBisectGood
    \/ CliSetupEnvironment
    \/ CliGetSuitesToRun
    \/ CliSetupQwikRepo
    \/ CliBuildQwik
    \/ CliRunStart
    \/ CliRunSync
    \/ CliRunEnd
    \/ CliLoopEnd
    \/ CliRunSuite
    \/ CliProbeBuild
    \/ CliProbeRunStart
    \/ CliProbeRunSync
    \/ CliProbeRunEnd
    \/ CliProbeReturn
    \/ CliBisectDone
    \/ BisectEnter
    \/ BisectStart
    \/ BisectBad
    \/ BisectGood
    \/ BisectLog
    \/ BisectSkip
    \/ BisectReset
    \/ BisectVerdict
    \/ BisectFinally

SpecCli == CliInit /\ [][CliNext]_vars

(***************************************************************************)
(* Properties of bisectQwik.                                               *)
(***************************************************************************)
Last(s) == s[Len(s)]

\* the smallest k with 2^k >= n
CeilLog2(n) == CHOOSE k \in 0..n : 2^k >= n /\ \A j \in 0..(k - 1) : 2^j < n

\* a subject line that starts with `release:` or `docs:`
StartsWithReleaseOrDocs(subject) ==
    /\ Len(subject) >= 2
    /\ subject[1] \in {"release", "docs"}
    /\ subject[2] = ":"

NoReleaseOrDocs(h) == \A c \in 1..h.n : ~isNonCodeCommit(h.subject[c])

\* the loop ended because git no longer printed "Bisecting:"
LoopEndedNormally ==
    pcBisect = "finally" /\ ~bisecting /\ probeLog # <<>>

\* C1: on every path through bisectQwik (normal end of the loop, a failing
\* git command at any step, a throwing probe) `git bisect reset` is executed
\* exactly once, as the last step, and bisectQwik ends without raising, also
\* when the reset command itself fails.
BisectResetExactlyOnce ==
    /\ [](/\ resetRuns <= 1
          /\ ~raised
          /\ (pcBisect = "done" => resetRuns = 1)
          /\ (resetRuns = 1 =>
                /\ pcBisect = "done"
                /\ Last(cmdLog).cmd = "bisect reset"
                /\ \A i \in 1..(Len(cmdLog) - 1) : cmdLog[i].cmd # "bisect reset"))
    /\ <>(pcBisect = "done")

\* the probe threw in the loop, the reset ran once and failed itself, and
\* bisectQwik has returned
BisectResetAfterThrowWitness ==
    /\ pcBisect = "done"
    /\ resetRuns = 1
    /\ Len(cmdLog) >= 2
    /\ cmdLog[Len(cmdLog) - 1].cmd = "runSuite"
    /\ Len(probeLog) >= 2
    /\ bisectSession.active

\* C2: for a linear range of N commits after `good` up to the bad head, with
\* one commit where the probe starts to fail and no release/docs subject,
\* bisectQwik reaches its cleanup after at most ceil(log2(N)) probes, and the
\* commit git reports is the first failing one.
BisectWithinLog2Probes ==
    NoReleaseOrDocs(qwikHistory) =>
        /\ pcBisect \in {"finally", "done"} =>
                Len(probeLog) <= CeilLog2(qwikHistory.n)
        /\ LoopEndedNormally => bisectSession.found = qwikHistory.culprit

\* C3: the probe is never invoked on a commit whose subject starts with
\* `release:` or `docs:`; for such a commit the loop issues `git bisect skip`,
\* reports no verdict, and goes on to examine the next candidate.
BisectSkipsNonCode ==
    LET nonCode(c) == StartsWithReleaseOrDocs(qwikHistory.subject[c])
    IN  /\ \A i \in 1..Len(probeLog) : ~nonCode(probeLog[i])
        /\ \A i \in 1..Len(cmdLog) :
              cmdLog[i].step = "verdict" => ~nonCode(cmdLog[i].commit)
        /\ \A i \in 1..(Len(cmdLog) - 1) :
              /\ (cmdLog[i].cmd = "log" /\ nonCode(cmdLog[i].commit)) =>
                    \/ cmdLog[i + 1] = [cmd |-> "bisect skip",
                                        commit |-> cmdLog[i].commit,
                                        step |-> "skip"]
                    \/ cmdLog[i + 1].cmd = "bisect reset"
              /\ cmdLog[i].cmd = "bisect skip" =>
                    \/ /\ cmdLog[i + 1].cmd = "log"
                       /\ cmdLog[i + 1].commit # cmdLog[i].commit
                    \/ cmdLog[i + 1].cmd = "bisect reset"

\* a `docs:` commit was skipped, the next candidate was examined and probed
BisectSkipWitness ==
    \E i \in 1..(Len(cmdLog) - 2) :
        /\ cmdLog[i].cmd = "bisect skip"
        /\ qwikHistory.subject[cmdLog[i].commit] = SubjectDocs
        /\ cmdLog[i + 1].cmd = "log"
        /\ cmdLog[i + 2].cmd = "runSuite"

(***************************************************************************)
(* Properties of setupRepo.                                                *)
(***************************************************************************)
RepoPastExists ==
    pcRepo \in {"clone", "clean", "fetch", "checkout", "merge", "reset", "done"}

RepoPastClone ==
    pcRepo \in {"clean", "fetch", "checkout", "merge", "reset", "done"}

\* C5: a second call with the same repo, branch, tag, commit and shallow
\* setting, on the directory the call before it synchronized, neither removes
\* the directory nor clones again, and ends at the commit the first one
\* ended at.
SetupRepoIdempotent ==
    (repoObs.same /\ RepoPastExists) =>
        /\ ~repoObs.deleted
        /\ ~repoObs.cloned
        /\ (pcRepo = "done" => fsDir.head = repoObs.prevHead)

\* the directory found by the call exists and is no clone of the target
RepoMismatch ==
    \/ repoObs.preKind = "plain"
    \/ repoObs.preKind = "git" /\ repoObs.preOrigin # options.repo

\* C6: a call that finds a directory whose remote is not the normalized
\* target, or that is no git repository, removes the directory and clones
\* the normalized target, so the directory's remote is the target from the
\* clone on.
SetupRepoRecoversMismatch ==
    (RepoMismatch /\ RepoPastExists) =>
        /\ repoObs.deleted
        /\ RepoPastClone =>
            /\ repoObs.cloned
            /\ fsDir.kind = "git"
            /\ fsDir.origin = options.repo

SetupRepoMismatchWitness ==
    /\ pcRepo = "done"
    /\ repoObs.preKind = "git"
    /\ repoObs.preOrigin = UrlB
    /\ options.repo = UrlA
    /\ repoObs.deleted
    /\ fsDir.origin = UrlA

\* the commit the precedence tag > commit > branch names, with the remote's
\* main as it was when the call fetched
ExpectedHead ==
    IF Truthy(options.tag) THEN RemoteTag(options.tag)
    ELSE IF Truthy(options.commit) THEN ShaCommit(options.commit)
    ELSE RemoteBranch(options.branch, prevSync.main)

\* C7: a successful call leaves the working copy at the tag if a tag is
\* given, else at the commit if a commit is given, else at the tip of the
\* branch, whatever the mode and whatever the directory held before.
SetupRepoTargetPrecedence ==
    pcRepo = "done" => (prevSync.valid /\ fsDir.head = ExpectedHead)

SetupRepoPrecedenceWitness ==
    /\ pcRepo = "done"
    /\ repoObs.preKind = "git"
    /\ options.tag = TagV1
    /\ options.commit = Sha2
    /\ options.branch = Dev
    /\ ~options.shallow
    /\ fsDir.head = RemoteTag(TagV1)

(***************************************************************************)
(* Properties of applyPackageOverrides.                                    *)
(***************************************************************************)
\* the sanitization of the running call is over and the call has not failed
OvSanitized ==
    pcOv \in {"clean", "detect", "pin", "merge", "write", "install", "done"}

\* v has a path separator, does not start with "@", and is a directory
NamesExistingDirectory(v) ==
    /\ "/" \in Range(v)
    /\ v[1] # "@"
    /\ lstatSync(v, ovEnv) = "dir"

\* C9: the sanitized overrides are the entries of the given ones whose value
\* is a string; the value of an existing directory is "file:" and its
\* absolute path, every other string is as given; nothing else is kept.
SanitizeKeepsStrings ==
    OvSanitized =>
        \A n \in Names :
            IF ovArgs[n].t = "string" THEN
                overrides[n] =
                    Str(IF NamesExistingDirectory(ovArgs[n].s)
                        THEN <<"file", ":">> \o Resolve(ProcessCwd, ovArgs[n].s)
                        ELSE ovArgs[n].s)
            ELSE overrides[n] = Undef

SanitizeWitness ==
    /\ pcOv = "done"
    /\ ovArgs["pkg-x"] = Str(Version100)
    /\ ovArgs["vite"] = Bool(TRUE)
    /\ ovArgs[Qwik] = Str(LocalDir)
    /\ overrides["pkg-x"] = Str(Version100)
    /\ overrides["vite"] = Undef
    /\ overrides[Qwik] = Str(<<"file", ":", "/", "ci", "/", "local-dir">>)

\* the merge of the running call is over
OvMerged == pcOv \in {"write", "install", "done"}

\* block `after` is block `before` with every override in it
MergedInto(after, before) ==
    /\ after.defined
    /\ \A n \in Names :
        after.e[n] = IF overrides[n] # Undef THEN overrides[n]
                     ELSE before.e[n]

\* block `after` is block `before` with the entries that have an override
\* set to it
PatchedIn(after, before) ==
    /\ after.defined = before.defined
    /\ \A n \in Names :
        after.e[n] = IF overrides[n] # Undef /\ before.e[n] # Undef
                     THEN overrides[n]
                     ELSE before.e[n]

\* C8: after the merge, under pnpm devDependencies and pnpm.overrides hold
\* every override; under yarn resolutions does and dependencies and
\* devDependencies are as before; under npm overrides does and every entry
\* of dependencies and devDependencies with the name of an override has the
\* override's value; entries with other names are as before.
MergePerManager ==
    OvMerged =>
        /\ pm = Pnpm =>
            /\ MergedInto(pkg.devDependencies, ovObs.before.devDependencies)
            /\ MergedInto(pkg.pnpmOverrides, ovObs.before.pnpmOverrides)
        /\ pm = Yarn =>
            /\ MergedInto(pkg.resolutions, ovObs.before.resolutions)
            /\ pkg.dependencies = ovObs.before.dependencies
            /\ pkg.devDependencies = ovObs.before.devDependencies
        /\ pm = Npm =>
            /\ MergedInto(pkg.overrides, ovObs.before.overrides)
            /\ PatchedIn(pkg.dependencies, ovObs.before.dependencies)
            /\ PatchedIn(pkg.devDependencies, ovObs.before.devDependencies)

(***************************************************************************)
(* Properties of runInRepo.                                                *)
(***************************************************************************)
IsPrefix(a, b) == Len(a) <= Len(b) /\ SubSeq(b, 1, Len(a)) = a

\* the phases in the order SYNC, VERIFY (frozen install, build, test, each
\* with its hook), OVERRIDE, BUILD, TEST for options o; SYNC is the call of
\* setupRepo, which a caller that has the directory prepared skips, and
\* the hook beforeInstall comes after it
PhasesInOrder(o) ==
    (IF o.skipGit THEN <<>> ELSE <<"sync">>)
    \o <<"beforeInstall">>
    \o (IF o.verify /\ o.test # None
        THEN <<"frozenInstall", "beforeBuild", "build", "beforeTest", "test">>
        ELSE <<>>)
    \o <<"override", "beforeBuild", "build">>
    \o (IF o.test # None THEN <<"beforeTest", "test">> ELSE <<>>)

\* C4: the steps a call of runInRepo has started are at every moment the
\* first ones of SYNC, verify phase (only with verify and test), override,
\* build, test (only with test), and a call that returns has started all of
\* them: no override before the verify phase is over, no verify phase
\* without verify and test, the build after the override in every case.
RunPhasesInOrder ==
    /\ IsPrefix(phases, PhasesInOrder(runOptions))
    /\ pcRun = "done" => phases = PhasesInOrder(runOptions)

RunVerifyThenOverrideWitness ==
    /\ pcRun = "done"
    /\ runOptions.verify
    /\ runOptions.test = TestTask
    /\ ~runOptions.skipGit
    /\ Len(phases) = 12
    /\ phases[7] = "test"
    /\ phases[8] = "override"
    /\ pkgFile # remotePkg

\* the caller gave an override of the core library
CoreOverride == runOptions.overrides[Qwik]

\* C10: with release set and an override of the core library of another
\* value, runInRepo throws the configuration error and applies no override;
\* with an override of the same value it does not throw that error.
ReleaseConflictRaises ==
    (pcRun \notin {"idle", "sync", "syncing", "detect"}
     /\ runOptions.release # None /\ CoreOverride # Undef) =>
        IF CoreOverride # Str(runOptions.release)
        THEN /\ "override" \notin Range(phases)
             /\ pcRun # "done"
        ELSE runError # "conflict"

\* the packages of the core library and the paths of their local builds
LocalBuilds ==
    {<<Qwik, QwikPackage>>, <<QwikCity, QwikCityPackage>>,
     <<EslintPluginQwik, EslintPluginQwikPackage>>}

\* C11: the overrides handed to applyPackageOverrides map the core library
\* to release whenever release is given; without release they map the core
\* library and its companions to their local builds under qwikPath, except
\* where the caller gave an override, which is kept.
RunOverridesCoreLibrary ==
    "override" \in Range(phases) =>
        IF runOptions.release # None
        THEN ovArgs[Qwik] = Str(runOptions.release)
        ELSE \A b \in LocalBuilds :
                ovArgs[b[1]] = IF runOptions.overrides[b[1]] # Undef
                               THEN runOptions.overrides[b[1]]
                               ELSE Str(b[2])

(***************************************************************************)
(* Properties of toCommand.                                                *)
(***************************************************************************)

\* a single bare word, optionally followed by blanks and flags
IsBareWord(s) ==
    /\ s # <<>>
    /\ IsWord(s[1])
    /\ Len(s) > 1 =>
        \E i \in 3..(Len(s) - 1) :
            /\ \A j \in 2..(i - 1) : s[j] = Blank
            /\ s[i] = "--"

\* the flags of such a string, as a list of arguments
FlagsOf(s) ==
    IF Len(s) = 1 THEN <<>>
    ELSE LET i == CHOOSE i \in 3..Len(s) : s[i] = "--" /\ s[i - 1] = Blank
         IN  <<SubSeq(s, i, Len(s))>>

\* several words separated by blanks, and no flags
IsSeveralWords(s) ==
    /\ Len(s) >= 3
    /\ \A i \in 1..Len(s) : IF i % 2 = 1 THEN IsWord(s[i]) ELSE s[i] = Blank

\* the manifest has a script of that name
HasScript(name) == taskEnv.scripts.defined /\ name \in taskEnv.scripts.names

\* C12: a string task that is a single bare word optionally followed by
\* flags is run through the manager's run form for that script, with the
\* flags passed on, when the manifest has a script of that name, and is
\* executed unchanged as a raw shell command when it has no such script.
BareWordDispatch ==
    \A i \in 1..Len(taskLog) :
        LET task == taskLog[i].task
        IN  task.type = "string" /\ IsBareWord(task.text) =>
                taskLog[i].did =
                    IF HasScript(task.text[1])
                    THEN RunForm(taskEnv.agent,
                                 <<<<task.text[1]>>>> \o FlagsOf(task.text))
                    ELSE RawShell(task.text)

\* C13: a string task made of several words without flags is never run
\* through the manager and is always executed as a raw shell command,
\* whether or not the manifest has a script named like its first word.
SeveralWordsRunRaw ==
    \A i \in 1..Len(taskLog) :
        LET task == taskLog[i].task
        IN  task.type = "string" /\ IsSeveralWords(task.text) =>
                taskLog[i].did = RawShell(task.text)

(***************************************************************************)
(* Properties of the commands.                                             *)
(***************************************************************************)

TakesSuites == cliArgs.command \in {"run", "run-suites", "bisect"}
MissingGood == cliArgs.command = "bisect" /\ ~Truthy(cliArgs.good)

\* the events of cliLog of one kind, as positions
EventsOf(kinds) == {i \in 1..Len(cliLog) : cliLog[i].ev \in kinds}

\* the process printed a message and exited with code 1 before it
\* synchronized a repository, built the core library or ran a suite
ExitedBeforeWork ==
    /\ pcCli = "exited"
    /\ exitCode = 1
    /\ EventsOf({"print"}) # {}
    /\ EventsOf({"setupQwikRepo", "buildQwik", "start"}) = {}

\* the action is past its checks of the arguments
PastChecks == pcCli \notin {"idle", "good", "env", "suites"}

\* C14, as stated: a requested suite name that is not in the catalog, or
\* bisect without --good, makes the process print a message and exit with
\* code 1 before any repository is synchronized, the core library is built
\* or a suite is run.
ExitsOnSuiteNotInCatalog ==
    /\ PastChecks
    /\ \/ MissingGood
       \/ /\ TakesSuites
          /\ \E x \in Range(cliArgs.suites) : x \notin Range(availableSuites)
    => ExitedBeforeWork

\* C14, amended: the same for a requested suite name that does not start
\* with "_" and is not in the catalog.
ExitsOnInvalidSuite ==
    /\ PastChecks
    /\ \/ MissingGood
       \/ /\ TakesSuites
          /\ \E x \in Range(cliArgs.suites) :
                ~StartsWith(x, "_") /\ x \notin Range(availableSuites)
    => ExitedBeforeWork

ExitsOnInvalidSuiteWitness ==
    /\ pcCli = "exited"
    /\ cliArgs.command = "run"
    /\ cliArgs.suites = <<QwikImage, UnknownSuite>>

\* C15: every command executed after setupEnvironment runs with the
\* inherited environment extended with CI, YARN_ENABLE_IMMUTABLE_INSTALLS,
\* NODE_OPTIONS and ECOSYSTEM_CI.
CommandsSeeExtendedEnv ==
    execEnv # NoEnv => execEnv = ExtendedEnv(processEnv)

\* C18: in the bisect command every probe after the first runs each suite
\* with skipGit true.
LaterProbesSkipGit ==
    cliArgs.command = "bisect" =>
        \A i \in EventsOf({"start"}) : cliLog[i].probe >= 2 => cliLog[i].skipGit

\* the suites in the requested order
RequestedOrder ==
    IF cliArgs.suites = <<>> THEN availableSuites ELSE cliArgs.suites

\* C20: in the run command without release the core library is synchronized
\* and built exactly once before the first suite starts, and the suites run
\* in the requested order, each one starting after the previous one has
\* ended; in the bisect command the core library is built exactly once per
\* probe, before any suite of that probe starts.
CoreBuiltOnceBeforeSuites ==
    /\ cliArgs.command = "run" /\ ~Truthy(cliArgs.release) =>
        LET starts == SelectSeq(cliLog, LAMBDA e : e.ev = "start")
        IN  /\ Cardinality(EventsOf({"setupQwikRepo"})) <= 1
            /\ Cardinality(EventsOf({"buildQwik"})) <= 1
            /\ \A i \in EventsOf({"start"}) :
                /\ \E j \in EventsOf({"setupQwikRepo"}), k \in EventsOf({"buildQwik"}) :
                        j < k /\ k < i
                /\ cliLog[i - 1].ev \in {"buildQwik", "end"}
            /\ \A i \in EventsOf({"end"}) :
                cliLog[i - 1].ev = "start" /\ cliLog[i - 1].suite = cliLog[i].suite
            /\ \A k \in 1..Len(starts) : starts[k].suite = RequestedOrder[k]
    /\ cliArgs.command = "bisect" =>
        \A p \in 1..probes :
            LET builds == {i \in EventsOf({"buildQwik"}) : cliLog[i].probe = p}
            IN  /\ Cardinality(builds) <= 1
                /\ p < probes \/ pcCli # "probeBuild" => Cardinality(builds) = 1
                /\ \A i \in EventsOf({"start"}) :
                        cliLog[i].probe = p => \E j \in builds : j < i

CoreBuiltOnceWitness ==
    /\ cliArgs.command = "run"
    /\ pcCli = "done"
    /\ Cardinality(EventsOf({"end"})) = 2
    /\ Cardinality(EventsOf({"buildQwik"})) = 1

\* the probe with number p ended in an error: a step of it threw
ProbeFailed(p) == \E i \in EventsOf({"throw"}) : cliLog[i].probe = p

\* C16: the verdict reported for a probe is `bad` exactly when the probe
\* ended in an error and `good` otherwise, and between the end of the probe
\* and the verdict `git reset --hard HEAD` is executed in the core checkout.
VerdictFollowsProbe ==
    /\ pcBisect = "verdict" =>
        /\ cwd = qwikPath
        /\ Len(cmdLog) >= 2
        /\ Last(cmdLog) = [cmd |-> "reset --hard", commit |-> qwikHead,
                           step |-> "reset"]
        /\ cmdLog[Len(cmdLog) - 1] = [cmd |-> "runSuite", commit |-> qwikHead,
                                      step |-> "probe"]
    /\ cmdLog # <<>> /\ Last(cmdLog).step = "verdict" =>
        /\ Last(cmdLog).cmd = IF ProbeFailed(probes) THEN "bisect bad"
                              ELSE "bisect good"
        /\ cmdLog[Len(cmdLog) - 1].cmd = "reset --hard"
        /\ cmdLog[Len(cmdLog) - 2].cmd = "runSuite"

VerdictFollowsProbeWitness ==
    /\ cmdLog # <<>>
    /\ Last(cmdLog).step = "verdict"
    /\ Last(cmdLog).cmd = "bisect good"
    /\ \E i \in 1..(Len(cmdLog) - 1) :
            cmdLog[i].step = "verdict" /\ cmdLog[i].cmd = "bisect bad"

\* C17: once git has said that the search is over (an output that does not
\* start with "Bisecting:" after `bisect good`, a skip or a verdict), no
\* probe is invoked and no skip or verdict command is issued any more.
NoProbeAfterSearchIsOver ==
    [][bisectSession.active /\ bisectSession.found # -1 =>
          \/ cmdLog' = cmdLog
          \/ Last(cmdLog').step \notin {"probe", "skip", "verdict"}]_vars

(***************************************************************************)
(* Properties of the clean steps.                                          *)
(***************************************************************************)

\* the directory holds what the repository has committed, and nothing else
AsCommitted == pkgFile = remotePkg /\ ~fsDir.untracked

\* C19: when a directory left by a run before is used again, nothing that
\* run wrote (installed dependencies, build output, the rewritten manifest)
\* is still there when the run starts its first step in the directory (the
\* hook before the install) or the merge of the overrides.
CleanStepsResetDirectory ==
    cwd = Dir1 /\ (pcRun = "beforeInstall" \/ pcOv = "merge") => AsCommitted

(***************************************************************************)
(* Properties of the detection of the manager.                             *)
(***************************************************************************)

\* detect returns nothing, or a manager other than pnpm, yarn or npm
NoSupportedManager ==
    \/ ~Truthy(ovEnv.agent)
    \/ SplitFirst(ovEnv.agent, "@") \notin {<<"pnpm">>, <<"yarn">>, <<"npm">>}

\* C21: when detection returns nothing or a manager other than pnpm, yarn
\* or npm, applyPackageOverrides does not return normally, package.json on
\* disk is not rewritten and no install command is run.
UnsupportedManagerFails ==
    [][NoSupportedManager =>
          /\ pcOv' # "done"
          /\ pkgFile' = pkgFile
          /\ ovObs'.installs = <<>>]_vars

UnsupportedManagerWitness ==
    /\ pcOv = "failed"
    /\ pm = <<"bun">>
    /\ overrides # EmptyObject
    /\ ovObs.cleanedIn = cwd
    /\ ovObs.installs = <<>>

\* The bisect command prepares the Qwik checkout without the shallow option
\* (ecosystem-ci.ts line 132, utils.ts lines 314-320): the call of setupRepo
\* has options.shallow false.
FullHistory(st) ==
    /\ st.kind = "git"
    /\ ~st.shallow
    /\ Ancestors(st.head) \subseteq st.objects

\* C22: when setupRepo, called without the shallow option as the bisect
\* command calls it, returns, the checkout is a repository with its complete
\* history, whatever the directory held before the call -- nothing, a plain
\* directory, or an earlier shallow clone of the same remote; a call that
\* cannot establish this fails instead of returning.
BisectCheckoutHasFullHistory ==
    (pcRepo = "done" /\ ~options.shallow) => FullHistory(fsDir)

BisectCheckoutHasFullHistoryWitness ==
    /\ pcRepo = "done"
    /\ ~options.shallow
    /\ repoObs.preKind = "git"
    /\ repoObs.preShallow
    /\ Trim(repoObs.preOrigin) = Trim(options.repo)
    /\ FullHistory(fsDir)

\* the probe with number p built the core library and ran every selected
\* suite to its end, and no step of it threw
ProbePassed(p) ==
    /\ \E i \in EventsOf({"buildQwik"}) : cliLog[i].probe = p
    /\ \A k \in 1..Len(suitesToRun) :
        \E i \in EventsOf({"end"}) :
            cliLog[i].probe = p /\ cliLog[i].suite = suitesToRun[k]
    /\ ~ProbeFailed(p)

\* the suite started at position i of cliLog was run to its end without an
\* error by an earlier probe that did not skip the synchronization
SyncedByEarlierProbe(i) ==
    \E j \in EventsOf({"start"}) :
        /\ j < i
        /\ cliLog[j].probe < cliLog[i].probe
        /\ cliLog[j].suite = cliLog[i].suite
        /\ ~cliLog[j].skipGit
        /\ cliLog[j + 1].ev = "end"
        /\ cliLog[j + 2].ev # "throw"

FirstRunInvariant ==
    cliArgs.command = "bisect" =>
        /\ ~isFirstRun => \E p \in 1..probes : ProbePassed(p)
        /\ \A i \in EventsOf({"start"}) :
            /\ cliLog[i].skipGit => SyncedByEarlierProbe(i)
            /\ (\A p \in 1..(cliLog[i].probe - 1) : ~ProbePassed(p)) =>
                /\ ~cliLog[i].skipGit
                /\ cliLog[i].verify = cliArgs.verify

FirstRunStep ==
    /\ ~isFirstRun => ~isFirstRun'
    /\ isFirstRun /\ ~isFirstRun' =>
        /\ cliArgs.command = "bisect"
        /\ ProbePassed(probes)

\* C23: in the bisect command isFirstRun becomes false only at the end of a
\* probe in which the core build and every selected suite ran without an
\* error, and never becomes true again; a suite started with skipGit true was
\* run to its end, synchronization included, by an earlier probe; and every
\* suite started by a probe up to and including the first passing one is
\* started with skipGit false and the verify option of the command line.
FirstRunClearedByPassingProbe ==
    []FirstRunInvariant /\ [][FirstRunStep]_vars

FirstRunClearedWitness ==
    /\ cliArgs.command = "bisect"
    /\ cliArgs.verify
    /\ ProbeFailed(1)
    /\ \E i \in EventsOf({"start"}) :
        /\ cliLog[i].skipGit
        /\ ~cliLog[i].verify
        /\ SyncedByEarlierProbe(i)
    /\ \E i \in EventsOf({"start"}) :
        /\ cliLog[i].probe = 1
        /\ ~cliLog[i].skipGit
        /\ cliLog[i].verify

\* the step executes a git command of bisectQwik
BisectGitStep == cmdLog' # cmdLog /\ Last(cmdLog').cmd # "runSuite"

\* the step is setupRepo called by runInRepo, returning after its
\* `git clean -fdxq`
SetupRepoCleanStep ==
    /\ pcCli \in {"running", "probeRunning"}
    /\ pcCli' \in {"overriding", "probeOverriding"}
    /\ ~Last(cliLog).skipGit

\* applyPackageOverrides, called by runInRepo, is about to execute its
\* `git clean -fdxq`
OverridesCleanNext == pcCli \in {"overriding", "probeOverriding"}

\* the directory named is the one of the suite that runs, and no other
OnlyTargetOfSuite(dir) ==
    /\ dir = SuiteTarget(suitesToRun[suiteIdx])
    /\ dir # qwikPath
    /\ \A other \in Range(availableSuites) :
        other # suitesToRun[suiteIdx] => dir # SuiteTarget(other)

CwdNamesTargetStep ==
    /\ BisectGitStep => cwd' = qwikPath
    /\ SetupRepoCleanStep => OnlyTargetOfSuite(cwd')

\* C24: every `git bisect ...`, `git log` and `git reset --hard HEAD` of
\* bisectQwik is executed with the current directory equal to qwikPath, also
\* after a probe has moved it into the directory of a suite; the
\* `git clean -fdxq` of setupRepo and the one of applyPackageOverrides, called
\* by runInRepo with or without skipGit, are executed with the current
\* directory equal to the directory of the suite that runs, never qwikPath
\* and never the directory of another suite.
CwdNamesTargetOfGitCommand ==
    /\ [](OverridesCleanNext => OnlyTargetOfSuite(cwd))
    /\ [][CwdNamesTargetStep]_vars

CwdNamesTargetWitness ==
    /\ cliArgs.command = "bisect"
    /\ pcCli = "probeOverriding"
    /\ Last(cliLog).skipGit
    /\ suiteIdx = 2
    /\ cwd = SuiteTarget(QwikImage)
    /\ \E i \in 1..Len(cmdLog) : cmdLog[i].step = "verdict"
    /\ Last(cmdLog).cmd = "runSuite"

====
